---- MODULE Spec2Model ----
(***************************************************************************)
(* Model of the LR evaluation core of rna-celtypes:                        *)
(*   - lir/plotting.py  AbstractCllrEvaluator (get_sample, __call__)       *)
(*   - rna/analytics.py cllr                                               *)
(* Arrays are modelled by the set of their row identities; an optional     *)
(* value (Python None / array / callable) is a record with a kind field.   *)
(***************************************************************************)
EXTENDS Integers, Sequences, FiniteSets, TLC

(* ------------------------------ bounds -------------------------------- *)
\* rows of the class-0 pool (X0, or what a callable X0 returns)
Pool0Rows == 4
\* rows of the class-1 pool (X1, or what a callable X1 returns)
Pool1Rows == 2
\* largest value of the repeat argument
MaxRepeat == 2
\* largest number of samples handed to rna.analytics.cllr
MaxSamples == 2
\* largest number of successive calls of one NormalCllrEvaluator
MaxCalls == 2
\* largest number of rows of a split handed to ScoreBasedCllrEvaluator
MaxSplitRows == 2
\* largest N_SAMPLES_PER_COMBINATION of augment_data
MaxPerCombination == 2
\* largest number of LRs of one label handed to plot_ece
MaxLen == 49
\* samples of one label given to plot_insight_cllr
MaxPerClass == 2
\* number of single cell types (len(single_cell_types))
NCellTypes == 2

(* ----------------------- values: None, arrays ------------------------- *)
None == [kind |-> "none", rows |-> {}]
Arr(S) == [kind |-> "array", rows |-> S]
Callable(S) == [kind |-> "callable", rows |-> S]

\* optional integers (sizes, train_folds): <<>> is Python None, <<n>> is n
NoInt == <<>>
Int1(n) == <<n>>

\* the rows of the pool of class c
FullPool(c) == IF c = 0 THEN 1 .. Pool0Rows ELSE 1 .. Pool1Rows

Classes == {0, 1}
SplitNames == {"train", "calibrate", "test"}

\* rows of the pre-supplied array for split s of class c (disjoint from pools)
SuppliedRows(c, s) ==
    LET k == CASE s = "train" -> 1 [] s = "calibrate" -> 2 [] OTHER -> 3
    IN  {100 + 10 * c + k}

VARIABLES
    arg,        \* the keyword arguments of the call (never assigned by the code,
                \* except the split arguments, which live in split)
    pc,         \* source line of lir/plotting.py about to execute
    run,        \* loop variable of line 67: repetitions completed
    pool,       \* pool[c]: class0_pool, class1_pool
    split,      \* split[c][s]: class0_train ... class1_test
    cllr,       \* the list built at lines 66-91
    err,        \* exception that left __call__, or "none"
    calls,      \* how often each callable argument was invoked
    branch,     \* branch of lines 79-91 taken in the last selection
    evaluated,  \* arguments handed to cllr / cllr_kfold in this repetition
    lrs,        \* rna.analytics.cllr: argument lrs
    y_nhot,     \* rna.analytics.cllr: argument y_nhot
    target_class, \* rna.analytics.cllr: argument target_class
    out,        \* rna.analytics.cllr: <<>> before the call, <<result>> after
    mix,        \* rna.analytics.get_mixture_columns_for_class: arguments, loop
                \* variable and the list built by line 171
    aug,        \* rna.analytics.augment_data: arguments, loop variable, the two
                \* arrays under construction
    mc,         \* MarginalClassifier: arguments of the call, the calibrator
                \* objects, _calibrators_per_target_class, the LRs returned
    normal,     \* NormalCllrEvaluator: its fields and the LRs of the last call
    pre,        \* ScoreBasedCllrEvaluator: the splits, the preprocessors still
                \* to run, the fit_transform calls made
    ece         \* rna.plotting plot_ece: lengths of lrs_p and lrs_d, the Cllr of
                \* the 'LR=1 always' label

hvars == <<arg, pc, run, pool, split, cllr, err, calls, branch, evaluated>>
avars == <<lrs, y_nhot, target_class, out>>
fvars == <<mix, aug, mc, normal, pre, ece>>
vars == <<hvars, avars, fvars>>

\* a part of the program no call of which is under way
Idle == [state |-> "idle"]

class0_pool == pool[0]
class1_pool == pool[1]
class0_train == split[0]["train"]
class1_train == split[1]["train"]
class0_calibrate == split[0]["calibrate"]
class1_calibrate == split[1]["calibrate"]
class0_test == split[0]["test"]
class1_test == split[1]["test"]

(* --------------------------- get_sample ------------------------------- *)
\* train_test_split returning the whole input as the second part
TrainTestSplitKeepsSample(rows, n) ==
    IF n > 0 /\ n < Cardinality(rows)
    THEN {<<S, rows>> : S \in {T \in SUBSET rows : Cardinality(T) = n}}
    ELSE {}

\* sklearn.model_selection.train_test_split(pool, train_size=n): every way to
\* shuffle-split the rows into n sample rows and the rest; no outcome (a
\* ValueError) unless 0 < n < number of rows
train_test_split(rows, n) ==
    IF n > 0 /\ n < Cardinality(rows)
    THEN {<<S, rows \ S>> : S \in {T \in SUBSET rows : Cardinality(T) = n}}
    ELSE {}

Ok(sample, newpool) == [sample |-> sample, pool |-> newpool, err |-> "none"]
Raise(e) == [sample |-> None, pool |-> None, err |-> e]

\* get_sample with line 50 dropping the pool
GetSampleDefaultConsumes(p, sample_size, default_value) ==
    IF sample_size = Int1(-1)
    THEN {Ok(p, None)}
    ELSE IF sample_size # NoInt /\ p.kind = "none"
    THEN {Raise("AttributeError")}
    ELSE IF sample_size # NoInt /\ sample_size[1] = Cardinality(p.rows)
    THEN {Ok(p, None)}
    ELSE IF sample_size # NoInt
    THEN LET parts == train_test_split(p.rows, sample_size[1])
         IN  IF parts = {}
             THEN {Raise("ValueError")}
             ELSE {Ok(Arr(q[1]), Arr(q[2])) : q \in parts}
    ELSE {Ok(default_value, None)}

\* AbstractCllrEvaluator.get_sample: the set of possible outcomes
get_sample(p, sample_size, default_value) ==
    IF sample_size = Int1(-1)
    THEN {Ok(p, None)}
    ELSE IF sample_size # NoInt /\ p.kind = "none"
    THEN {Raise("AttributeError")}          \* None.shape at line 42
    ELSE IF sample_size # NoInt /\ sample_size[1] = Cardinality(p.rows)
    THEN {Ok(p, None)}
    ELSE IF sample_size # NoInt
    THEN LET parts == train_test_split(p.rows, sample_size[1])
         IN  IF parts = {}
             THEN {Raise("ValueError")}     \* raised by train_test_split
             ELSE {Ok(Arr(q[1]), Arr(q[2])) : q \in parts}
    ELSE {Ok(default_value, p)}

(* ----------------------------- __call__ ------------------------------- *)
\* lines 71-77: the statement at each line draws split s of class c
SampleLines == {71, 72, 73, 75, 76, 77}
ClassAt(line) == IF line < 75 THEN 0 ELSE 1
SplitAt(line) ==
    CASE line \in {71, 75} -> "train"
      [] line \in {72, 76} -> "calibrate"
      [] OTHER -> "test"
NextLine(line) == CASE line = 73 -> 75 [] line = 77 -> 79 [] OTHER -> line + 1

\* lines 71-77 with the per-class size of class 0 read for both classes
SizeForOfClass0(c, s) ==
    IF arg.class_size[0][s] # NoInt THEN arg.class_size[0][s] ELSE arg.size[s]

\* class<c>_<s>_size if class<c>_<s>_size is not None else <s>_size
SizeFor(c, s) ==
    IF arg.class_size[c][s] # NoInt THEN arg.class_size[c][s] ELSE arg.size[s]

\* resolve = lambda value: value if value is None or not callable(value) else value(x)
resolve(value) == IF value.kind = "callable" THEN Arr(value.rows) ELSE value

\* the pool resolved before the loop only: later repetitions go on with what
\* the previous one left
ResolvePoolStale(c) == IF run = 0 THEN resolve(arg.X[c]) ELSE pool[c]

\* lines 68-69 for class c: the pool a repetition starts from
ResolvePool(c) == resolve(arg.X[c])

Bump(n, value) == IF value.kind = "callable" THEN n + 1 ELSE n

\* lines 71-77 reading the split argument as it was passed to the call
SplitArgumentAsPassed(c, s) == arg.given[c][s]

\* class<c>_<s> as lines 71-77 read it: the local variable, which holds the
\* argument of the call until the line has assigned it
SplitArgument(c, s) == split[c][s]

\* line 67 entering the loop body, lines 68-69
Resolve ==
    /\ pc = 67 /\ err = "none" /\ run < arg.repeat
    /\ pool' = [c \in Classes |-> ResolvePool(c)]
    /\ calls' = [calls EXCEPT !.X = [c \in Classes |-> Bump(calls.X[c], arg.X[c])]]
    /\ evaluated' = <<>>
    /\ pc' = 71
    /\ UNCHANGED <<arg, run, split, cllr, err, branch, avars, fvars>>

\* one of the lines 71-73, 75-77
Sample ==
    /\ pc \in SampleLines /\ err = "none"
    /\ LET c == ClassAt(pc)
           s == SplitAt(pc)
       IN  /\ calls' = [calls EXCEPT !.split[c][s] = Bump(@, SplitArgument(c, s))]
           /\ \E got \in get_sample(pool[c], SizeFor(c, s), resolve(SplitArgument(c, s))) :
                IF got.err # "none"
                THEN /\ err' = got.err
                     /\ UNCHANGED <<pc, pool, split>>
                ELSE /\ split' = [split EXCEPT ![c][s] = got.sample]
                     /\ pool' = [pool EXCEPT ![c] = got.pool]
                     /\ pc' = NextLine(pc)
                     /\ UNCHANGED err
    /\ UNCHANGED <<arg, run, cllr, branch, evaluated, avars, fvars>>

\* lines 79-91 with the calibration test ahead of the k-fold test
SelectBranchNoPriority ==
    IF class0_calibrate # None THEN "cllr"
    ELSE IF class0_train # None /\ arg.train_folds # NoInt THEN "kfold"
    ELSE IF class0_train # None /\ arg.train_reuse THEN "reuse"
    ELSE "skip"

\* lines 79-91: which branch is taken ("skip": none of them)
SelectBranch ==
    IF class0_train # None /\ arg.train_folds # NoInt THEN "kfold"
    ELSE IF class0_calibrate # None THEN "cllr"
    ELSE IF class0_train # None /\ arg.train_reuse THEN "reuse"
    ELSE "skip"

\* the asserts of lines 81-84
KfoldAssertsHold ==
    /\ class0_train # None /\ class1_train # None
    /\ class0_test # None /\ class1_test # None

\* the call made at line 85, 88 or 91: the method and, per class, the splits
\* passed (cllr_kfold takes no calibration splits; line 91 passes the training
\* splits as the calibration splits)
CallArgs(b) ==
    [f |-> IF b = "kfold" THEN "cllr_kfold" ELSE "cllr",
     args |-> [c \in Classes |->
                [s \in SplitNames |->
                   IF s = "calibrate"
                   THEN CASE b = "kfold" -> None
                          [] b = "cllr" -> split[c]["calibrate"]
                          [] OTHER -> split[c]["train"]
                   ELSE split[c][s]]]]

\* lines 79-91, then back to the loop head
Select ==
    /\ pc = 79 /\ err = "none"
    /\ branch' = SelectBranch
    /\ IF SelectBranch = "kfold" /\ ~KfoldAssertsHold
       THEN /\ err' = "AssertionError"
            /\ UNCHANGED <<pc, run, cllr, evaluated>>
       ELSE /\ IF SelectBranch = "skip"
               THEN UNCHANGED <<cllr, evaluated>>
               ELSE /\ cllr' = Append(cllr, [run |-> run, path |-> SelectBranch])
                    /\ evaluated' = <<CallArgs(SelectBranch)>>
            /\ run' = run + 1
            /\ pc' = 67
            /\ UNCHANGED err
    /\ UNCHANGED <<arg, pool, split, calls, avars, fvars>>

\* line 93, when the loop of line 67 is exhausted
Return ==
    /\ pc = 67 /\ err = "none" /\ run = arg.repeat
    /\ pc' = 93
    /\ UNCHANGED <<arg, run, pool, split, cllr, err, calls, branch, evaluated, avars, fvars>>

(* ------------------------ arguments of a call -------------------------- *)
SizeVals == {NoInt, Int1(-1), Int1(1), Int1(Pool0Rows - 1)}
\* X0 and X1: both plain arrays, or both callables returning an array
PoolArgs == {[c \in Classes |-> Arr(FullPool(c))], [c \in Classes |-> Callable(FullPool(c))]}
\* the split arguments of a call: each class in G is given pre-supplied arrays
\* for its three splits, the other classes none
GivenSplits(G) ==
    [c \in Classes |-> [s \in SplitNames |->
        IF c \in G THEN Arr(SuppliedRows(c, s)) ELSE None]]

CallArguments ==
    [X : PoolArgs,
     size : [SplitNames -> SizeVals],
     class_size : {[c \in Classes |-> [s \in SplitNames |-> NoInt]]},
     given : {GivenSplits(G) : G \in SUBSET Classes},
     train_folds : {NoInt, Int1(2)},
     train_reuse : BOOLEAN,
     repeat : 1 .. MaxRepeat]

\* neither the functions of rna.analytics other than cllr, nor the classifier,
\* nor the evaluators' own methods, nor plot_ece are under way
RestIdle ==
    /\ mix = Idle /\ aug = Idle /\ mc = Idle
    /\ normal = Idle /\ pre = Idle /\ ece = Idle

\* no call of rna.analytics.cllr is under way
AnalyticsIdle ==
    /\ lrs = <<>> /\ y_nhot = <<>> /\ out = <<>>
    /\ target_class = [k \in 1 .. NCellTypes |-> 1]

Init ==
    /\ arg \in CallArguments
    /\ pc = 67
    /\ run = 0
    /\ pool = [c \in Classes |-> None]
    /\ split = arg.given
    /\ cllr = <<>>
    /\ err = "none"
    /\ calls = [X |-> [c \in Classes |-> 0],
                split |-> [c \in Classes |-> [s \in SplitNames |-> 0]]]
    /\ branch = "none"
    /\ evaluated = <<>>
    /\ AnalyticsIdle
    /\ RestIdle

Next == Resolve \/ Sample \/ Select \/ Return

Spec == Init /\ [][Next]_vars

\* the state line 67 is first reached in, for the keyword arguments a
StartOfCall(a) ==
    /\ arg = a
    /\ pc = 67
    /\ run = 0
    /\ pool = [c \in Classes |-> None]
    /\ split = a.given
    /\ cllr = <<>>
    /\ err = "none"
    /\ calls = [X |-> [c \in Classes |-> 0],
                split |-> [c \in Classes |-> [s \in SplitNames |-> 0]]]
    /\ branch = "none"
    /\ evaluated = <<>>
    /\ AnalyticsIdle
    /\ RestIdle

\* calls with shared sizes (None or 1) and per-class sizes (None or 2) for
\* every split, on two arrays and without pre-supplied splits
SizeArguments ==
    [X : {[c \in Classes |-> Arr(FullPool(c))]},
     size : [SplitNames -> {NoInt, Int1(1)}],
     class_size : [Classes -> [SplitNames -> {NoInt, Int1(2)}]],
     given : {GivenSplits({})},
     train_folds : {NoInt},
     train_reuse : {FALSE},
     repeat : {1}]

InitSizes == \E a \in SizeArguments : StartOfCall(a)

SpecSizes == InitSizes /\ [][Next]_vars

\* the split arguments of a call: each class in G is given a callable for
\* each of its three splits, the other classes none
GivenCallables(G) ==
    [c \in Classes |-> [s \in SplitNames |->
        IF c \in G THEN Callable(SuppliedRows(c, s)) ELSE None]]

\* calls with callables for the splits, on two arrays or two callables, with
\* no size or a shared size for the training split
CallableArguments ==
    [X : PoolArgs,
     size : {[s \in SplitNames |-> NoInt],
             [s \in SplitNames |-> IF s = "train" THEN Int1(1) ELSE NoInt]},
     class_size : {[c \in Classes |-> [s \in SplitNames |-> NoInt]]},
     given : {GivenCallables(G) : G \in SUBSET Classes},
     train_folds : {NoInt, Int1(2)},
     train_reuse : {FALSE},
     repeat : 1 .. MaxRepeat]

InitCallables == \E a \in CallableArguments : StartOfCall(a)

SpecCallables == InitCallables /\ [][Next]_vars

(* ------------------------- rna.analytics.cllr -------------------------- *)
\* LR values are IEEE-754 doubles; the model keeps the ones that behave
\* differently under the arithmetic of lines 184-189
FiniteLRs == {"0.5", "2.0"}
LRValues == FiniteLRs \cup {"0.0", "-2.0", "inf", "nan"}

\* np.multiply(v, m) for a double v and a mask m in {0, 1}
\* (inf * 0 = nan, nan * 0 = nan, -2.0 * 0 = -0.0)
np_multiply(v, m) ==
    IF m = 1 THEN v
    ELSE CASE v \in {"inf", "nan"} -> "nan"
           [] v \in {"-2.0", "-0.0"} -> "-0.0"
           [] OTHER -> "0.0"

\* v == 0.0 (true of -0.0, false of nan)
EqualsZero(v) == v \in {"0.0", "-0.0"}

\* np.max(np.multiply(y_nhot, target_class), axis=1)[j]
InTarget(row, target) ==
    IF \E k \in 1 .. NCellTypes : row[k] * target[k] = 1 THEN 1 ELSE 0

\* np.delete(a, np.where(a == 0.0))
DeleteZeros(a) == SelectSeq(a, LAMBDA v : ~EqualsZero(v))

\* lines 184-185
Masked(ls, y, target, h1) ==
    [j \in 1 .. Len(ls) |->
        np_multiply(ls[j], IF h1 THEN InTarget(y[j], target) ELSE 1 - InTarget(y[j], target))]

\* the float 9999.0000 of line 194
Sentinel == [kind |-> "sentinel", lr_class0 |-> <<>>, lr_class1 |-> <<>>]

\* lir.lr.calculate_cllr(lr_class0, lr_class1).cllr: the cost of these two arrays
calculate_cllr(lr_class0, lr_class1) ==
    [kind |-> "cllr", lr_class0 |-> lr_class0, lr_class1 |-> lr_class1]

\* rna.analytics.cllr
analytics_cllr(ls, y, target) ==
    LET lrs1 == DeleteZeros(Masked(ls, y, target, TRUE))
        lrs2 == DeleteZeros(Masked(ls, y, target, FALSE))
    IN  IF Len(lrs1) > 0 /\ Len(lrs2) > 0
        THEN calculate_cllr(lrs2, lrs1)
        ELSE Sentinel

\* a caller evaluates cllr(lrs, y_nhot, target_class)
CallCllr ==
    /\ out = <<>>
    /\ out' = <<analytics_cllr(lrs, y_nhot, target_class)>>
    /\ UNCHANGED <<lrs, y_nhot, target_class, hvars, fvars>>

NHotVectors == [1 .. NCellTypes -> {0, 1}]
SeqsOf(S, n) == UNION {[1 .. k -> S] : k \in 0 .. n}

\* no call of the evaluator is under way
HarnessIdle ==
    /\ arg = [X |-> [c \in Classes |-> Arr(FullPool(c))],
              size |-> [s \in SplitNames |-> NoInt],
              class_size |-> [c \in Classes |-> [s \in SplitNames |-> NoInt]],
              given |-> GivenSplits({}),
              train_folds |-> NoInt, train_reuse |-> FALSE, repeat |-> 1]
    /\ pc = 93 /\ run = 1
    /\ pool = [c \in Classes |-> None]
    /\ split = arg.given
    /\ cllr = <<>> /\ err = "none"
    /\ calls = [X |-> [c \in Classes |-> 0],
                split |-> [c \in Classes |-> [s \in SplitNames |-> 0]]]
    /\ branch = "skip" /\ evaluated = <<>>

InitCllr ==
    /\ HarnessIdle
    /\ lrs \in SeqsOf(LRValues, MaxSamples)
    /\ y_nhot \in [1 .. Len(lrs) -> NHotVectors]
    /\ target_class \in {v \in NHotVectors : \E k \in 1 .. NCellTypes : v[k] = 1}
    /\ out = <<>>
    /\ RestIdle

NextCllr == CallCllr

SpecCllr == InitCllr /\ [][NextCllr]_vars

(* ------------- rna.analytics.get_mixture_columns_for_class ------------- *)
\* bin(i)[2:]: the binary digits of i, most significant first, as characters
RECURSIVE bin(_)
bin(i) == IF i < 2 THEN <<IF i = 0 THEN "0" ELSE "1">>
          ELSE bin(i \div 2) \o <<IF i % 2 = 0 THEN "0" ELSE "1">>

\* the loop `while len(binary) < n: binary = '0' + binary`
RECURSIVE PadLeft(_, _)
PadLeft(binary, n) == IF Len(binary) < n THEN PadLeft(<<"0">> \o binary, n) ELSE binary

\* np.flip
Flip(s) == [k \in 1 .. Len(s) |-> s[Len(s) + 1 - k]]

\* int(j) for a digit character j
int(j) == IF j = "1" THEN 1 ELSE 0

\* int_to_binary without np.flip
IntToBinaryUnflipped(i) ==
    LET binary == PadLeft(bin(i), NCellTypes)
    IN  [k \in 1 .. Len(binary) |-> int(binary[k])]

\* int_to_binary (lines 146-150); element k of the result is binary[k - 1]
int_to_binary(i) ==
    LET binary == PadLeft(bin(i), NCellTypes)
    IN  Flip([k \in 1 .. Len(binary) |-> int(binary[k])])

\* np.inner of two vectors of equal length
RECURSIVE Inner(_, _, _)
Inner(a, b, k) == IF k = 0 THEN 0 ELSE a[k] * b[k] + Inner(a, b, k - 1)
np_inner(a, b) == Inner(a, b, Len(a))

\* binary_admissable (lines 152-169); priors = <<>> is a falsy priors argument
\* (None or an empty list)
binary_admissable(binary, target, priors) ==
    /\ priors # <<>> =>
          \A k \in 1 .. Len(target) :
              /\ ~(binary[k] = 1 /\ priors[k] = 0)
              /\ ~(binary[k] = 0 /\ priors[k] = 1)
    /\ np_inner(binary, target) # 0

\* 2 ** n
RECURSIVE Pow2(_)
Pow2(n) == IF n = 0 THEN 1 ELSE 2 * Pow2(n - 1)

\* range(a, b) as a list
Range(a, b) == [k \in 1 .. (b - a) |-> a + k - 1]

\* line 171 as a whole
get_mixture_columns_for_class(target, priors) ==
    SelectSeq(Range(0, Pow2(NCellTypes)),
              LAMBDA i : binary_admissable(int_to_binary(i), target, priors))

\* one iteration of the comprehension of line 171
MixStep ==
    /\ mix.state = "run"
    /\ mix.i < Pow2(NCellTypes)
    /\ mix' = [mix EXCEPT
                 !.i = @ + 1,
                 !.cols = IF binary_admissable(int_to_binary(mix.i),
                                               mix.target_class, mix.priors)
                          THEN Append(@, mix.i) ELSE @]
    /\ UNCHANGED <<hvars, avars, aug, mc, normal, pre, ece>>

\* line 171: the range is exhausted, the list is returned
MixReturn ==
    /\ mix.state = "run"
    /\ mix.i = Pow2(NCellTypes)
    /\ mix' = [mix EXCEPT !.state = "done"]
    /\ UNCHANGED <<hvars, avars, aug, mc, normal, pre, ece>>

\* target_class, and 1 - target_class: vectors of 0 and 1
TargetVectors == [1 .. NCellTypes -> {0, 1}]
\* a prior is 0, 1 or anything else (2 stands for a value that is neither)
PriorVectors == [1 .. NCellTypes -> {0, 1, 2}]

InitMix ==
    /\ HarnessIdle /\ AnalyticsIdle
    /\ aug = Idle /\ mc = Idle /\ normal = Idle /\ pre = Idle /\ ece = Idle
    /\ mix \in [state : {"run"}, target_class : TargetVectors,
                priors : {<<>>} \cup PriorVectors, i : {0}, cols : {<<>>}]

NextMix == MixStep \/ MixReturn

SpecMix == InitMix /\ [][NextMix]_vars

(* ------- rna.lr_system.convert_prob_per_mixture_to_marginal_per_class --- *)
\* the default of the MAX_LR argument of MarginalClassifier.__init__
MAX_LR == 10

\* A double that is the quotient of two integers is kept as <<n, d>> in lowest
\* terms with d >= 0: <<1, 0>> is inf, <<0, 0>> is nan.
RECURSIVE GCD(_, _)
GCD(a, b) == IF b = 0 THEN a ELSE GCD(b, a % b)
Abs(a) == IF a < 0 THEN 0 - a ELSE a

\* numerator / denominator of line 90 (<<-1, 0>> is -inf)
np_divide(n, d) ==
    IF d = 0 THEN (IF n = 0 THEN <<0, 0>> ELSE IF n > 0 THEN <<1, 0>> ELSE <<0 - 1, 0>>)
    ELSE LET g == GCD(Abs(n), Abs(d))
         IN  IF d > 0 THEN <<n \div g, d \div g>>
             ELSE <<(0 - n) \div g, (0 - d) \div g>>

\* v > m and v < m for a double v and an integer m (both false of nan)
Greater(v, m) == IF v[2] = 0 THEN v[1] > 0 ELSE v[1] > m * v[2]
Less(v, m) == IF v[2] = 0 THEN v[1] < 0 ELSE v[1] < m * v[2]

\* line 92 alone
ClampUpperOnly(v, max_lr) == IF Greater(v, max_lr) THEN <<max_lr, 1>> ELSE v

\* lines 92-93 for one entry
Clamp(v, max_lr) ==
    LET w == IF Greater(v, max_lr) THEN <<max_lr, 1>> ELSE v
    IN  IF Less(w, 0 - max_lr) THEN <<0 - max_lr, 1>> ELSE w

\* np.sum(prob[:, indices][:, :, 0], axis=1)[s]: columns are numbered from 0
RECURSIVE SumCols(_, _, _)
SumCols(row, indices, k) ==
    IF k = 0 THEN 0 ELSE row[indices[k] + 1] + SumCols(row, indices, k - 1)

\* sum(target_class)
RECURSIVE SumVec(_, _)
SumVec(v, k) == IF k = 0 THEN 0 ELSE v[k] + SumVec(v, k - 1)

\* 1 - target_class
Complement(target) == [k \in 1 .. Len(target) |-> 1 - target[k]]

\* lines 82-90 with a denominator over the mixtures without any cell type of
\* the target class (the columns that are not in the numerator)
MarginalDisjointDenominator(row, target, priors_numerator, priors_denominator) ==
    LET num == get_mixture_columns_for_class(target, priors_numerator)
        den == SelectSeq(Range(0, Pow2(NCellTypes)),
                         LAMBDA c : \A k \in 1 .. Len(num) : num[k] # c)
    IN  np_divide(SumCols(row, num, Len(num)), SumCols(row, den, Len(den)))

\* lines 82-90 for one sample (row of prob) and one target class
Marginal(row, target, priors_numerator, priors_denominator) ==
    LET num == get_mixture_columns_for_class(target, priors_numerator)
        den == get_mixture_columns_for_class(Complement(target), priors_denominator)
    IN  np_divide(SumCols(row, num, Len(num)), SumCols(row, den, Len(den)))

\* the function as a whole: the array returned (lrs[s][i]) or the exception.
\* prob[s][c + 1] is prob[s, c, 0]: lines 84 and 89 index three axes, so that
\* a two-dimensional prob raises IndexError at line 84.
convert_prob_per_mixture_to_marginal_per_class(prob, ndim, target_classes, max_lr, priors_numerator, priors_denominator) ==
    LET T == 1 .. Len(target_classes)
        empty == {i \in T : SumVec(target_classes[i], Len(target_classes[i])) = 0}
    IN  IF T # {} /\ ndim = 2 /\ 1 \notin empty
          THEN [err |-> "IndexError", lrs |-> <<>>]
        ELSE IF empty # {}
          THEN [err |-> "AssertionError", lrs |-> <<>>]
        ELSE [err |-> "none",
              lrs |-> [s \in 1 .. Len(prob) |->
                         [i \in T |->
                            Clamp(Marginal(prob[s], target_classes[i],
                                           priors_numerator, priors_denominator),
                                  max_lr)]]]

\* a caller evaluates the function
CallConvert ==
    /\ mc.state = "run" /\ mc.op = "convert"
    /\ LET r == convert_prob_per_mixture_to_marginal_per_class(
                    mc.prob, mc.ndim, mc.target_classes, mc.MAX_LR,
                    mc.priors_numerator, mc.priors_denominator)
       IN  mc' = [mc EXCEPT !.state = "done", !.lrs = r.lrs, !.err = r.err]
    /\ UNCHANGED <<hvars, avars, mix, aug, normal, pre, ece>>

\* rows of prob, as non-negative weights of the mixtures that are not all 0
\* (the probabilities are the weights over their sum; the quotient of line 90
\* is the same): weights 0 and 1, or one weight that outweighs MAX_LR others
MixtureColumns == 1 .. Pow2(NCellTypes)
ProbRows ==
    ([MixtureColumns -> {0, 1}] \ {[c \in MixtureColumns |-> 0]})
      \cup {[c \in MixtureColumns |-> IF c = b THEN MAX_LR * Pow2(NCellTypes) ELSE 1] :
              b \in MixtureColumns}

\* target_classes: one or two rows
TargetLists ==
    {<<t>> : t \in TargetVectors} \cup {<<t, u>> : t, u \in TargetVectors}

\* the priors arguments: none, or one of the two (priors are given for an
\* array of three axes and one target class)
PriorPairs ==
    {<<p, <<>>>> : p \in {<<>>} \cup PriorVectors} \cup {<<<<>>, p>> : p \in PriorVectors}

InitLR ==
    /\ HarnessIdle /\ AnalyticsIdle
    /\ mix = Idle /\ aug = Idle /\ normal = Idle /\ pre = Idle /\ ece = Idle
    /\ \E row \in ProbRows, tcs \in TargetLists, pp \in PriorPairs, nd \in {2, 3} :
          /\ pp # <<<<>>, <<>>>> => (Len(tcs) = 1 /\ nd = 3)
          /\ mc = [state |-> "run", op |-> "convert",
                prob |-> <<row>>, ndim |-> nd, target_classes |-> tcs,
                MAX_LR |-> MAX_LR,
                priors_numerator |-> pp[1], priors_denominator |-> pp[2],
                lrs |-> <<>>, err |-> "none"]

NextLR == CallConvert

SpecLR == InitLR /\ [][NextLR]_vars

\* rows of an array prob that is not a matrix of probabilities: weights of
\* either sign, so that a quotient of line 90 can be negative
SignedRows ==
    [MixtureColumns -> {0 - 1, 0, 1}]
      \cup {[c \in MixtureColumns |-> IF c = b THEN sgn * MAX_LR * Pow2(NCellTypes) ELSE 1] :
              b \in MixtureColumns, sgn \in {0 - 1, 1}}

\* a call for one sample and one target class, without priors
InitClip ==
    /\ HarnessIdle /\ AnalyticsIdle
    /\ mix = Idle /\ aug = Idle /\ normal = Idle /\ pre = Idle /\ ece = Idle
    /\ \E row \in SignedRows, t \in TargetVectors :
          mc = [state |-> "run", op |-> "convert",
                prob |-> <<row>>, ndim |-> 3, target_classes |-> <<t>>,
                MAX_LR |-> MAX_LR,
                priors_numerator |-> <<>>, priors_denominator |-> <<>>,
                lrs |-> <<>>, err |-> "none"]

SpecClip == InitClip /\ [][NextLR]_vars

(* ----------------- rna.lr_system.MarginalClassifier -------------------- *)
\* str(target_class) for a numpy vector of 0 and 1: "[0 1]", as characters
RECURSIVE Digits(_, _)
Digits(v, k) ==
    IF k = 0 THEN <<>>
    ELSE Digits(v, k - 1) \o (IF k = 1 THEN <<>> ELSE <<" ">>)
           \o <<IF v[k] = 1 THEN "1" ELSE "0">>
str(v) == <<"[">> \o Digits(v, Len(v)) \o <<"]">>

\* np.max(np.multiply(y_nhot, target_class.T), axis=1)
RECURSIVE MaxProduct(_, _, _)
MaxProduct(y, target, k) ==
    IF k = 0 THEN 0
    ELSE LET m == MaxProduct(y, target, k - 1)
             v == y[k] * target[k]
         IN  IF v > m THEN v ELSE m
Labels(y, target) == [s \in 1 .. Len(y) |-> MaxProduct(y[s], target, Len(target))]

\* lrs_per_target_class[:, i]
Column(a, i) == [s \in 1 .. Len(a) |-> a[s][i]]

\* lines 30-31 with the first target class in place of the i-th
CalibrationDataFirstTarget(lrs_per_target_class, y, target_classes, i) ==
    [scores |-> Column(lrs_per_target_class, 1),
     labels |-> Labels(y, target_classes[1])]

\* lines 30-31: what the calibrator of the i-th target class is fitted on
CalibrationData(lrs_per_target_class, y, target_classes, i) ==
    [scores |-> Column(lrs_per_target_class, i),
     labels |-> Labels(y, target_classes[i])]

\* calibrator.fit(scores, labels) of lir: the calibrator state it returns, a
\* new state estimated from the scores of label 1 and those of label 0, or
\* InsufficientDataError when a class has no sample
fit(scores, labels) ==
    IF \A v \in {0, 1} : \E s \in 1 .. Len(labels) : labels[s] = v
    THEN [err |-> "none", state |-> [scores |-> scores, labels |-> labels]]
    ELSE [err |-> "InsufficientDataError", state |-> Idle]

\* calibrator.transform(scores) of lir: evaluates the fitted densities at the
\* scores without refitting, so each value it returns is a function of the
\* calibrator state and of the score
transform(calibrator, scores) ==
    [k \in 1 .. Len(scores) |-> [calibrated |-> scores[k], by |-> calibrator]]

\* lines 52-56: the columns replaced in order; KeyError at the first target
\* class that no calibrator was fitted for
RECURSIVE Calibrate(_, _, _, _)
Calibrate(self, lrs_per_target_class, target_classes, i) ==
    IF i > Len(target_classes) THEN [err |-> "none", lrs |-> lrs_per_target_class]
    ELSE IF str(target_classes[i]) \notin DOMAIN self.calibrators_per_target_class
      THEN [err |-> "KeyError", lrs |-> <<>>]
    ELSE LET caliblrs_per_target_class ==
                 transform(self.calibrators_per_target_class[str(target_classes[i])],
                           Column(lrs_per_target_class, i))
         IN  Calibrate(self,
                       [s \in 1 .. Len(lrs_per_target_class) |->
                          [lrs_per_target_class[s] EXCEPT ![i] = caliblrs_per_target_class[s]]],
                       target_classes, i + 1)

\* predict_lrs with the priors forwarded to the conversion as priors_numerator
PredictLrsForwardsPriors(self, ypred_proba, ndim, target_classes, with_calibration, priors) ==
    LET r == convert_prob_per_mixture_to_marginal_per_class(
                 ypred_proba, ndim, target_classes, self.MAX_LR, priors, <<>>)
    IN  IF r.err = "none" /\ with_calibration
        THEN Calibrate(self, r.lrs, target_classes, 1) ELSE r

\* predict_lrs (lines 38-58) for the array that
\* self._classifier.predict_proba(X) returns: the array returned or the
\* exception
predict_lrs(self, ypred_proba, ndim, target_classes, with_calibration, priors) ==
    LET r == convert_prob_per_mixture_to_marginal_per_class(
                 ypred_proba, ndim, target_classes, self.MAX_LR, <<>>, <<>>)
    IN  IF r.err = "none" /\ with_calibration
        THEN Calibrate(self, r.lrs, target_classes, 1) ELSE r

\* d[key] = value
DictSet(d, key, value) ==
    [k \in DOMAIN d \cup {key} |-> IF k = key THEN value ELSE d[k]]

\* fit_calibration line 26
FitCalibrationPredict ==
    /\ mc.state = "run" /\ mc.op = "fit_calibration" /\ mc.pc = 26
    /\ LET r == predict_lrs(mc, mc.prob, mc.ndim, mc.target_classes, FALSE, <<>>)
       IN  mc' = IF r.err = "none"
                 THEN [mc EXCEPT !.pc = 28, !.lrs = r.lrs]
                 ELSE [mc EXCEPT !.state = "done", !.err = r.err]
    /\ UNCHANGED <<hvars, avars, mix, aug, normal, pre, ece>>

\* one iteration of the loop of lines 28-33
FitCalibrationStep ==
    /\ mc.state = "run" /\ mc.op = "fit_calibration" /\ mc.pc = 28
    /\ mc.i < Len(mc.target_classes)
    /\ LET i == mc.i + 1
           data == CalibrationData(mc.lrs, mc.y_nhot, mc.target_classes, i)
           r == fit(data.scores, data.labels)
       IN  mc' = IF r.err = "none"
                 THEN [mc EXCEPT
                         !.i = i,
                         !.calibrator = r.state,
                         !.calibrators_per_target_class =
                             DictSet(@, str(mc.target_classes[i]), r.state)]
                 ELSE [mc EXCEPT !.state = "done", !.err = r.err]
    /\ UNCHANGED <<hvars, avars, mix, aug, normal, pre, ece>>

\* line 35
FitCalibrationReturn ==
    /\ mc.state = "run" /\ mc.op = "fit_calibration" /\ mc.pc = 28
    /\ mc.i = Len(mc.target_classes)
    /\ mc' = [mc EXCEPT !.state = "done", !.pc = 35]
    /\ UNCHANGED <<hvars, avars, mix, aug, normal, pre, ece>>

\* self._classifier.predict_proba(X) for the samples of X: positive weights of
\* the mixtures that differ from mixture to mixture and from sample to
\* sample, so that the LRs of different target classes differ
predict_proba ==
    {[s \in 1 .. MaxSamples |-> [c \in MixtureColumns |-> c + s - 1]]}

InitCalib ==
    /\ HarnessIdle /\ AnalyticsIdle
    /\ mix = Idle /\ aug = Idle /\ normal = Idle /\ pre = Idle /\ ece = Idle
    /\ \E proba \in predict_proba,
          y \in [1 .. MaxSamples -> NHotVectors],
          tcs \in TargetLists :
          mc = [state |-> "run", op |-> "fit_calibration", pc |-> 26,
                prob |-> proba, ndim |-> 3, y_nhot |-> y, target_classes |-> tcs,
                MAX_LR |-> MAX_LR, i |-> 0, lrs |-> <<>>,
                calibrator |-> Idle,
                calibrators_per_target_class |-> <<>>,
                err |-> "none"]

NextCalib == FitCalibrationPredict \/ FitCalibrationStep \/ FitCalibrationReturn

SpecCalib == InitCalib /\ [][NextCalib]_vars

\* self._classifier.predict_proba(X) of the fitted classifier for the data X
\* (numbered 1, 2): positive weights that differ from mixture to mixture, from
\* sample to sample and from X to X
classifier_predict_proba(X) ==
    [s \in 1 .. MaxSamples |-> [c \in MixtureColumns |-> c + s + X - 2]]

\* a call predict_lrs(X, target_classes, with_calibration, priors) of the
\* fitted model; calls lists the priors and the result of each call so far
PredictLrs ==
    /\ mc.state = "ready" /\ mc.op = "predict_lrs"
    /\ Len(mc.calls) < 2
    /\ \E priors \in {<<>>} \cup PriorVectors :
          LET r == predict_lrs(mc, classifier_predict_proba(mc.X), 3,
                               mc.target_classes, mc.with_calibration, priors)
          IN  mc' = [mc EXCEPT !.calls = Append(@, [priors |-> priors, returned |-> r])]
    /\ UNCHANGED <<hvars, avars, mix, aug, normal, pre, ece>>

\* the target classes of the calls: one, or one and the cell types outside it
PredictTargets ==
    {<<t>> : t \in TargetVectors} \cup {<<t, Complement(t)>> : t \in TargetVectors}

\* a fitted model (lines 10-19), whose calibrators were fitted for the target
\* classes (lines 22-35) or not at all, and the X, target_classes and
\* with_calibration of the calls that follow
InitPredict ==
    /\ HarnessIdle /\ AnalyticsIdle
    /\ mix = Idle /\ aug = Idle /\ normal = Idle /\ pre = Idle /\ ece = Idle
    /\ \E X \in {1, 2}, tcs \in PredictTargets, wc \in BOOLEAN, fitted \in BOOLEAN :
          /\ ~wc => fitted
          /\ mc = [state |-> "ready", op |-> "predict_lrs",
                   X |-> X, target_classes |-> tcs, with_calibration |-> wc,
                   MAX_LR |-> MAX_LR,
                   calibrators_per_target_class |->
                       IF fitted
                       THEN [key \in {str(tcs[i]) : i \in 1 .. Len(tcs)} |->
                               [scores |-> key, labels |-> <<0, 1>>]]
                       ELSE <<>>,
                   calls |-> <<>>]

NextPredict == PredictLrs

SpecPredict == InitPredict /\ [][NextPredict]_vars

(* ------------------ lir.plotting.NormalCllrEvaluator ------------------- *)
\* np.exp(-a) is 0.0 for a above this (the smallest double is about exp(-745.13))
ExpUnderflow == 745

\* _get_probability with X - mu in place of np.power(X - mu, 2)
GetProbabilityUnsquared(x, mu, sigma) ==
    [zero |-> (x - mu) > 2 * sigma * sigma * ExpUnderflow,
     power |-> x - mu, sigma |-> sigma]

\* _get_probability (lines 106-107) for integers x, mu, sigma: the double it
\* returns is a function of np.power(X - mu, 2) and sigma, and it is 0.0 when
\* the exponential underflows (for the values used below no exponent lies
\* between 743 and 746, where the rounding of np.exp and of the division by
\* the square root would decide)
get_probability(x, mu, sigma) ==
    [zero |-> (x - mu) * (x - mu) > 2 * sigma * sigma * ExpUnderflow,
     power |-> (x - mu) * (x - mu), sigma |-> sigma]

\* X_p1 / X_p0 for two doubles that are not negative
Quotient(p1, p0) ==
    CASE p0.zero /\ p1.zero -> [lr |-> "nan"]
      [] p0.zero /\ ~p1.zero -> [lr |-> "inf"]
      [] ~p0.zero /\ p1.zero -> [lr |-> "0.0"]
      [] ~p0.zero /\ ~p1.zero /\ p1 = p0 -> [lr |-> "1.0"]
      [] OTHER -> [lr |-> "p1/p0", p1 |-> p1, p0 |-> p0]

\* _get_lr (lines 109-115) at one point, with the fields as arguments
get_lr(x, loc0, scale0, loc1, scale1) ==
    Quotient(get_probability(x, loc1, scale1), get_probability(x, loc0, scale0))

\* calculate_cllr without lines 127-128
AdjustLoc1Never(n) == n.loc1

\* lines 127-128: self._loc1 when _get_lr is reached
AdjustLoc1(n) == IF n.delta # NoInt THEN n.loc0 + n.delta[1] ELSE n.loc1

\* calculate_cllr reading the argument of the present call in place of the
\* field _distribution_mean_delta
AdjustLoc1FromArgument(n) == IF n.arg # NoInt THEN n.loc0 + n.arg[1] ELSE n.loc1

\* lines 127-128 as the evaluation of a repetition applies them
adjust_loc1(n) == AdjustLoc1(n)

\* __call__ lines 61-62, for the argument distribution_mean_delta = d; passed
\* lists the argument of every call so far
NormalCall ==
    /\ normal.state = "ready"
    /\ normal.ncalls < MaxCalls
    /\ \E d \in {NoInt} \cup {Int1(v) : v \in {0, 2, 78}} :
          normal' = [normal EXCEPT
                       !.state = "called",
                       !.ncalls = @ + 1,
                       !.nevals = 0,
                       !.arg = d,
                       !.passed = Append(@, d),
                       !.delta = IF d # NoInt THEN d ELSE @]
    /\ UNCHANGED <<hvars, avars, mix, aug, mc, pre, ece>>

\* a repetition of the call reaches cllr or cllr_kfold (lines 117-121), that
\* is calculate_cllr (lines 123-136), with the test splits of the repetition
NormalEvaluate ==
    /\ normal.state = "called"
    /\ normal.nevals < MaxRepeat
    /\ \E t0, t1 \in {<<>>} \cup {<<x>> : x \in {1, 39}} :
          IF t0 = <<>>
          THEN normal' = [normal EXCEPT !.state = "failed", !.err = "AttributeError"]
          ELSE LET loc1 == adjust_loc1(normal)
                   lr_at(x) == get_lr(x, normal.loc0, normal.scale0, loc1, normal.scale1)
               IN  normal' =
                     [normal EXCEPT
                        !.loc1 = loc1,
                        !.nevals = @ + 1,
                        !.class0_test = t0,
                        !.class1_test = t1,
                        !.X0_lr = [k \in 1 .. Len(t0) |-> lr_at(t0[k])],
                        !.X1_lr = [k \in 1 .. Len(t1) |-> lr_at(t1[k])],
                        !.state = IF t1 = <<>> THEN "failed" ELSE @,
                        !.err = IF t1 = <<>> THEN "AttributeError" ELSE @]
    /\ UNCHANGED <<hvars, avars, mix, aug, mc, pre, ece>>

\* line 93
NormalReturn ==
    /\ normal.state = "called"
    /\ normal' = [normal EXCEPT !.state = "ready"]
    /\ UNCHANGED <<hvars, avars, mix, aug, mc, pre, ece>>

\* NormalCllrEvaluator.__init__ (lines 97-104); a test split is None (<<>>)
\* or an array of one column, kept as the list of its values
InitNormal ==
    /\ HarnessIdle /\ AnalyticsIdle
    /\ mix = Idle /\ aug = Idle /\ mc = Idle /\ pre = Idle /\ ece = Idle
    /\ \E l0 \in {0, 2}, s0 \in {1, 2}, l1 \in {2, 78}, s1 \in {1, 2} :
          normal = [state |-> "ready", ncalls |-> 0, nevals |-> 0,
                    loc0 |-> l0, scale0 |-> s0, loc1 |-> l1, scale1 |-> s1,
                    delta |-> NoInt, arg |-> NoInt, passed |-> <<>>,
                    init |-> [loc0 |-> l0, scale0 |-> s0, loc1 |-> l1, scale1 |-> s1],
                    class0_test |-> <<>>, class1_test |-> <<>>,
                    X0_lr |-> <<>>, X1_lr |-> <<>>, err |-> "none"]

NextNormal == NormalCall \/ NormalEvaluate \/ NormalReturn

SpecNormal == InitNormal /\ [][NextNormal]_vars

(* --------- lir.plotting.process_vector, ScoreBasedCllrEvaluator --------- *)
\* Arrays are objects of a heap (object -> list of rows); a split is None or a
\* view of an object: a whole array, or a slice of one (which shares its data).
NoSplit == [kind |-> "none"]
View(obj, off, len) == [kind |-> "array", obj |-> obj, off |-> off, len |-> len]

\* the rows a split shows (none for None)
RowsOf(heap, x) ==
    IF x.kind = "none" THEN <<>> ELSE SubSeq(heap[x.obj], x.off + 1, x.off + x.len)

\* x.shape[0], 0 for the np.empty that line 21 puts in place of None
Shape0(x) == IF x.kind = "none" THEN 0 ELSE x.len

\* rows of the first k splits, in argument order
RECURSIVE ConcatRows(_, _, _)
ConcatRows(heap, X, k) ==
    IF k = 0 THEN <<>> ELSE ConcatRows(heap, X, k - 1) \o RowsOf(heap, X[k])

\* the cursor left at 0 (line 29 dropped)
CursorAtStart(X, k) == 0

\* cursor of lines 24-29 before split k
RECURSIVE Cursor(_, _)
Cursor(X, k) == IF k = 1 THEN 0 ELSE Cursor(X, k - 1) + Shape0(X[k - 1])

\* the object following the last one allocated
NewObject(heap) == Len(heap) + 1

\* np.concatenate handing back its only non-empty argument instead of a copy
ConcatenateNoCopy(heap, X) ==
    LET full == {k \in 1 .. Len(X) : Shape0(X[k]) > 0}
    IN  IF Cardinality(full) = 1
        THEN LET k == CHOOSE j \in full : TRUE
             IN  [heap |-> heap, obj |-> X[k].obj]
        ELSE [heap |-> Append(heap, ConcatRows(heap, X, Len(X))),
              obj |-> NewObject(heap)]

\* np.concatenate(X) (line 22): a new array holding the rows of all splits
np_concatenate(heap, X) ==
    [heap |-> Append(heap, ConcatRows(heap, X, Len(X))), obj |-> NewObject(heap)]

\* the row a fitted preprocessor q makes of row r: a row is the number of the
\* caller's row it comes from, followed by the preprocessors it went through
Transformed(q, r) == Append(r, q)

\* preprocessor.fit_transform(X_all) (line 24): the preprocessor is free to
\* transform the array it is given in place or to return a new one
fit_transform(heap, q, obj, inplace) ==
    LET rows == [k \in 1 .. Len(heap[obj]) |-> Transformed(q, heap[obj][k])]
    IN  IF inplace
        THEN [heap |-> [heap EXCEPT ![obj] = rows], obj |-> obj]
        ELSE [heap |-> Append(heap, rows), obj |-> NewObject(heap)]

\* process_vector (lines 20-31): the heap after the call and X_out, or the
\* AttributeError of X[0].shape at line 21 when a split is None and X[0] is
process_vector(heap, q, X, inplace) ==
    IF (\E k \in 1 .. Len(X) : X[k].kind = "none") /\ X[1].kind = "none"
    THEN [err |-> "AttributeError", heap |-> heap, X_out |-> X, X_all |-> <<>>]
    ELSE LET c == np_concatenate(heap, X)
             t == fit_transform(c.heap, q, c.obj, inplace)
         IN  [err |-> "none",
              heap |-> t.heap,
              X_all |-> c.heap[c.obj],
              X_out |-> [k \in 1 .. Len(X) |->
                            IF Shape0(X[k]) > 0
                            THEN View(t.obj, Cursor(X, k), Shape0(X[k]))
                            ELSE NoSplit]]

\* one iteration of the loop of lines 147-148 (cllr_kfold) or 154-155 (cllr)
PreStep ==
    /\ pre.state = "run"
    /\ pre.todo # <<>>
    /\ \E inplace \in BOOLEAN :
          LET q == Head(pre.todo)
              r == process_vector(pre.heap, q, pre.X, inplace)
          IN  pre' = IF r.err = "none"
                     THEN [pre EXCEPT
                             !.heap = r.heap,
                             !.X = r.X_out,
                             !.todo = Tail(@),
                             !.attempts = @ + 1,
                             !.log = Append(@, [preprocessor |-> q,
                                                args |-> [k \in 1 .. Len(pre.X) |->
                                                            RowsOf(pre.heap, pre.X[k])],
                                                none |-> {k \in 1 .. Len(pre.X) :
                                                            pre.X[k].kind = "none"},
                                                X_all |-> r.X_all])]
                     ELSE [pre EXCEPT !.state = "failed", !.err = r.err,
                                      !.attempts = @ + 1]
    /\ UNCHANGED <<hvars, avars, mix, aug, mc, normal, ece>>

\* lines 149 / 156: the splits go to lir.lr.scorebased_cllr(_kfold)
PreScore ==
    /\ pre.state = "run"
    /\ pre.todo = <<>>
    /\ pre' = [pre EXCEPT !.state = "done"]
    /\ UNCHANGED <<hvars, avars, mix, aug, mc, normal, ece>>

\* the rows of the array the caller holds for split k
CallerRows(k, n) == [j \in 1 .. n |-> <<10 * k + j>>]

\* the splits of a call of cllr_kfold (four) or cllr (six), with no, one or
\* two preprocessors (numbered in their order): split k is None or
\* the caller's array k (X0, X1 or a pre-supplied split, which get_sample hands
\* on as they are, or a sample drawn from them)
InitPre ==
    /\ HarnessIdle /\ AnalyticsIdle
    /\ mix = Idle /\ aug = Idle /\ mc = Idle /\ normal = Idle /\ ece = Idle
    /\ \E n \in {4, 6} :
        \E rows \in [1 .. n -> 0 .. MaxSplitRows], absent \in SUBSET (1 .. n),
           ps \in {<<>>, <<1>>, <<1, 2>>} :
          /\ \A k \in absent : rows[k] = 0
          /\ pre = [state |-> "run",
                    heap |-> [k \in 1 .. n |-> CallerRows(k, rows[k])],
                    caller |-> [k \in 1 .. n |-> CallerRows(k, rows[k])],
                    given |-> [k \in 1 .. n |->
                                 IF k \in absent THEN NoSplit ELSE View(k, 0, rows[k])],
                    X |-> [k \in 1 .. n |->
                             IF k \in absent THEN NoSplit ELSE View(k, 0, rows[k])],
                    preprocessors |-> ps, todo |-> ps,
                    attempts |-> 0, log |-> <<>>, err |-> "none"]

NextPre == PreStep \/ PreScore

SpecPre == InitPre /\ [][NextPre]_vars

(* ---------------------- rna.analytics.augment_data ---------------------- *)
\* binary[-i_celltype - 1] (line 115)
DigitFromEnd(binary, i_celltype) == binary[Len(binary) - i_celltype]

\* lines 113-117 for i_celltype = 0 .. k - 1: the classes appended to
\* classes_in_current_mixture, which are the columns of the block set to 1
ClassesInMixture(binary, k) ==
    {i_celltype \in 0 .. k - 1 : DigitFromEnd(binary, i_celltype) = "1"}

\* construct_random_samples (lines 24-74): n rows, each the mean of one random
\* sample of every class to include (a row is kept as the set of its classes),
\* or the ValueError of np.random.randint(0) for a class without samples
construct_random_samples(y_classes, n, classes_to_include) ==
    IF classes_to_include \subseteq y_classes
    THEN [err |-> "none", rows |-> [k \in 1 .. n |-> classes_to_include]]
    ELSE [err |-> "ValueError", rows |-> <<>>]

\* the function without lines 96-100: the arrays of lines 103-105 are made
\* and the loop is entered whatever X.size is
AugEnterWithoutSizeCheck ==
    /\ aug.state = "called"
    /\ aug' = [aug EXCEPT !.state = "loop",
                          !.X_augmented = <<>>,
                          !.y_columns = aug.n_celltypes,
                          !.y_nhot_augmented =
                              [r \in 1 .. Pow2(aug.n_celltypes) * aug.N |->
                                  [c \in 1 .. aug.n_celltypes |-> 0]]]
    /\ UNCHANGED <<hvars, avars, mix, mc, normal, pre, ece>>

\* lines 96-105: y_columns is the second dimension of y_nhot_augmented, which
\* has no row when X.size is 0
AugEnter ==
    /\ aug.state = "called"
    /\ aug' = IF aug.X_empty
              THEN [aug EXCEPT !.state = "return",
                               !.X_augmented = <<"None">>,
                               !.y_columns = aug.n_celltypes,
                               !.y_nhot_augmented = <<>>]
              ELSE [aug EXCEPT !.state = "loop",
                               !.X_augmented = <<>>,
                               !.y_columns = aug.n_celltypes,
                               !.y_nhot_augmented =
                                   [r \in 1 .. Pow2(aug.n_celltypes) * aug.N |->
                                       [c \in 1 .. aug.n_celltypes |-> 0]]]
    /\ UNCHANGED <<hvars, avars, mix, mc, normal, pre, ece>>

\* one iteration of the loop of lines 108-124; n_sampled counts the calls of
\* construct_random_samples
AugStep ==
    /\ aug.state = "loop"
    /\ aug.i < Pow2(aug.n_celltypes)
    /\ LET binary == PadLeft(bin(aug.i), aug.n_celltypes)
           block == aug.i * aug.N + 1 .. (aug.i + 1) * aug.N
           classes == ClassesInMixture(binary, aug.n_classes)
           mixture == IF aug.from_penile THEN classes \cup {aug.n_celltypes}
                      ELSE classes
           sampled == construct_random_samples(aug.y_classes, aug.N, mixture)
       IN  aug' =
             IF aug.n_classes > Len(binary)
               THEN [aug EXCEPT !.state = "raised", !.err = "IndexError", !.line = 115]
             ELSE IF aug.from_penile
               \* column n_celltypes of an array of n_celltypes columns
               THEN [aug EXCEPT !.state = "raised", !.err = "IndexError", !.line = 120]
             ELSE IF sampled.err # "none"
               THEN [aug EXCEPT !.state = "raised", !.err = sampled.err, !.line = 123,
                                !.n_sampled = @ + 1]
             ELSE [aug EXCEPT
                     !.i = @ + 1,
                     !.n_sampled = @ + 1,
                     !.X_augmented = @ \o sampled.rows,
                     !.y_nhot_augmented =
                         [r \in DOMAIN @ |->
                             IF r \in block
                             THEN [c \in 1 .. aug.n_celltypes |->
                                      IF c - 1 \in classes THEN 1 ELSE @[r][c]]
                             ELSE @[r]]]
    /\ UNCHANGED <<hvars, avars, mix, mc, normal, pre, ece>>

\* lines 127-130, once the loop is exhausted
AugScale ==
    /\ aug.state = "loop"
    /\ aug.i = Pow2(aug.n_celltypes)
    /\ aug' = [aug EXCEPT !.state = "return"]
    /\ UNCHANGED <<hvars, avars, mix, mc, normal, pre, ece>>

\* line 132: X_augmented, y_nhot_augmented[:, :n_celltypes]
AugReturn ==
    /\ aug.state = "return"
    /\ aug' = [aug EXCEPT
                 !.state = "returned",
                 !.y_columns = IF @ < aug.n_celltypes THEN @ ELSE aug.n_celltypes,
                 !.y_nhot_augmented =
                     [r \in DOMAIN @ |-> SubSeq(@[r], 1, aug.n_celltypes)]]
    /\ UNCHANGED <<hvars, avars, mix, mc, normal, pre, ece>>

\* the arguments: X empty or not, n_celltypes single cell types, a label
\* encoder of these classes alone or of these and penile skin (class
\* n_celltypes), each class of the encoder having samples in y
InitAug ==
    /\ HarnessIdle /\ AnalyticsIdle
    /\ mix = Idle /\ mc = Idle /\ normal = Idle /\ pre = Idle /\ ece = Idle
    /\ \E e \in BOOLEAN, n \in 1 .. NCellTypes, penile \in BOOLEAN,
          samples \in 1 .. MaxPerCombination, fp \in BOOLEAN, bz \in BOOLEAN :
          aug = [state |-> "called", X_empty |-> e, n_celltypes |-> n,
                 n_classes |-> IF penile THEN n + 1 ELSE n,
                 y_classes |-> 0 .. (IF penile THEN n ELSE n - 1),
                 N |-> samples, from_penile |-> fp, binarize |-> bz,
                 i |-> 0, X_augmented |-> <<>>, y_nhot_augmented |-> <<>>,
                 y_columns |-> 0, n_sampled |-> 0,
                 err |-> "none", line |-> 0]

NextAug == AugEnter \/ AugStep \/ AugScale \/ AugReturn

SpecAug == InitAug /\ [][NextAug]_vars

(* -------------- rna.plotting plot_ece: calculate_cllr ------------------ *)
\* A double just below a power of two is kept as [exp, below]: the value
\* 2^exp - below * 2^(exp - 53), so that [exp |-> 0, below |-> 0] is 1.0 and
\* [exp |-> 0, below |-> 1] is the double next below it.
SignificandBits == 53
Double(e, b) == [exp |-> e, below |-> b]
One == Double(0, 0)

\* number of binary digits of n >= 1
RECURSIVE BitLength(_)
BitLength(n) == IF n < 2 THEN 1 ELSE 1 + BitLength(n \div 2)

\* 2^e mod n
RECURSIVE Pow2Mod(_, _)
Pow2Mod(e, n) == IF e = 0 THEN 1 % n ELSE (2 * Pow2Mod(e - 1, n)) % n

\* (1 / n) * sum for sum = n, both operations rounded to nearest: with k the
\* bit length of n and r = 2^(k + 52) mod n, the quotient 1 / n is rounded down
\* when 2r < n, and the product n * (1 / n) = 1 - r * 2^-(k + 52) then rounds
\* to 1.0 unless r is above half a unit in the last place, 2^(k - 2)
ReciprocalTimes(n) ==
    LET k == BitLength(n)
        r == Pow2Mod(k + SignificandBits - 1, n)
    IN  Double(0, IF 2 * r < n /\ 4 * r > Pow2(k) THEN 1 ELSE 0)

\* a + b with a tie rounded down
AddTiesDown(a, b) == Double(1, (a.below + b.below + 1) \div 2)

\* a + b for doubles 1.0 or next below it: 2 - (a.below + b.below) * 2^-53,
\* a tie rounded to the even significand (that of 2.0)
Add(a, b) == Double(1, (a.below + b.below) \div 2)

\* 0.5 * v
Half(v) == Double(v.exp - 1, v.below)

\* the local calculate_cllr (lines 624-631) for lr_p and lr_d all ones, of
\* lengths N_p and N_d: log2(1 + 1 / 1) and log2(1 + 1) are 1.0 and sum_p, sum_d
\* are N_p and N_d
ece_calculate_cllr(N_p, N_d) ==
    IF N_p = 0 \/ N_d = 0
    THEN [err |-> "ZeroDivisionError", cllr |-> One]
    ELSE [err |-> "none",
          cllr |-> Half(Add(ReciprocalTimes(N_p), ReciprocalTimes(N_d)))]

\* '{0:.1f}'.format(v) for a double v within a unit in the last place of 1 or 2
format_1f(v) == IF v.exp = 0 THEN "1.0" ELSE "2.0"

\* lines 656-657: the label of the 'LR=1 always' curve
EceLabel ==
    /\ ece.state = "run"
    /\ LET r == ece_calculate_cllr(ece.N_p, ece.N_d)
       IN  ece' = [ece EXCEPT
                     !.state = "done", !.err = r.err, !.cllr = r.cllr,
                     !.label = IF r.err = "none" THEN format_1f(r.cllr) ELSE ""]
    /\ UNCHANGED <<hvars, avars, mix, aug, mc, normal, pre>>

\* lines 636-637: lrs_p and lrs_d, by their lengths
InitEce ==
    /\ HarnessIdle /\ AnalyticsIdle
    /\ mix = Idle /\ aug = Idle /\ mc = Idle /\ normal = Idle /\ pre = Idle
    /\ ece \in [state : {"run"}, N_p : 0 .. MaxLen, N_d : 0 .. MaxLen,
                cllr : {One}, label : {""}, err : {"none"}]

NextEce == EceLabel

SpecEce == InitEce /\ [][NextEce]_vars

(* ------- rna.plotting plot_ece: pav_transform_lrs, calculate_cllr ------- *)
\* 10 ** 10 and 10 ** -10 of lines 596-597, by the exponent
ClampExponent == 10

\* An LR is kept as [n, d, e], the value (n / d) * 10^e with small n and d:
\* e = 0 for a moderate LR, and e beyond the exponent of lines 596-597 for an
\* LR that is extreme but finite; [0, 1, 0] is 0.0 and [1, 0, 0] is inf.
Dec(n, d, e) == [n |-> n, d |-> d, e |-> e]

\* a < b for two LRs that are positive and finite
ValueLess(a, b) == IF a.e # b.e THEN a.e < b.e ELSE a.n * b.d < b.n * a.d

\* the posterior odds over the prior odds of the samples whose LR lies in
\* [a, b]: (k1 / N1) / (k0 / N0), as a pair <<numerator, denominator>>
BlockOdds(lr, labels, a, b) ==
    LET block == {j \in DOMAIN lr : ~ValueLess(lr[j], a) /\ ~ValueLess(b, lr[j])}
        k(v) == Cardinality({j \in block : labels[j] = v})
        N(v) == Cardinality({j \in DOMAIN lr : labels[j] = v})
    IN  <<k(1) * N(0), k(0) * N(1)>>

\* x < y for two such pairs
OddsLess(x, y) == x[1] * y[2] < y[1] * x[2]

\* IsotonicCalibrator of lir, fit on (lrs, labels) and applied to lrs (lines
\* 592-594): pool-adjacent-violators over the samples sorted by LR, samples
\* of equal LR being one block. The value of sample i is the largest, over
\* the blocks' lower ends a <= lrs[i], of the smallest, over the upper ends
\* b >= lrs[i], of the odds of the samples in [a, b].
IsotonicCalibrator(lr, labels) ==
    [i \in DOMAIN lr |->
       LET lower == {lr[j] : j \in {j \in DOMAIN lr : ~ValueLess(lr[i], lr[j])}}
           upper == {lr[j] : j \in {j \in DOMAIN lr : ~ValueLess(lr[j], lr[i])}}
           least(a) == LET S == {BlockOdds(lr, labels, a, b) : b \in upper}
                       IN  CHOOSE x \in S : \A y \in S : ~OddsLess(y, x)
           M == {least(a) : a \in lower}
           odds == CHOOSE x \in M : \A y \in M : ~OddsLess(x, y)
       IN  IF odds[2] = 0 THEN Dec(1, 0, 0)
           ELSE Dec(odds[1] \div GCD(odds[1], odds[2]),
                    odds[2] \div GCD(odds[1], odds[2]), 0)]

\* lines 596-597 for one entry
pav_clamp(v) ==
    IF v.d = 0 \/ v.e > ClampExponent \/ (v.e = ClampExponent /\ v.n > v.d)
    THEN Dec(1, 1, ClampExponent)
    ELSE IF v.n = 0 \/ v.e < 0 - ClampExponent \/ (v.e = 0 - ClampExponent /\ v.n < v.d)
    THEN Dec(1, 1, 0 - ClampExponent)
    ELSE v

\* pav_transform_lrs (lines 591-602): the calibrated LR of every sample
pav_transform_lrs(lr, labels) ==
    LET lrs_after_calibration == IsotonicCalibrator(lr, labels)
    IN  [i \in DOMAIN lr |-> pav_clamp(lrs_after_calibration[i])]

\* 10^k for k >= 0
RECURSIVE Pow10(_)
Pow10(k) == IF k = 0 THEN 1 ELSE 10 * Pow10(k - 1)

\* fractions <<n, d>> in lowest terms
Frac(n, d) == <<n \div GCD(n, d), d \div GCD(n, d)>>
FracMul(x, y) == Frac(x[1] * y[1], x[2] * y[2])
FracAdd(x, y) == Frac(x[1] * y[2] + y[1] * x[2], x[2] * y[2])

\* ln(1 + x) for x = (n / d) * 10^e, as [A, q, S]: the value
\* A * ln(10) + ln(q) + S * 10^-(ClampExponent + 1), where 1 + x is taken as
\* x * (1 + 1 / x) for an extreme x and ln(1 + t) as t for a t below
\* 10^-ClampExponent (the terms left out are below 10^-20)
Log1p(x) ==
    IF x.e = 0 THEN [A |-> 0, q |-> Frac(x.n + x.d, x.d), S |-> <<0, 1>>]
    ELSE IF x.e < 0
      THEN [A |-> 0, q |-> <<1, 1>>,
            S |-> Frac(x.n * Pow10(x.e + ClampExponent + 1), x.d)]
    ELSE [A |-> x.e, q |-> Frac(x.n, x.d),
          S |-> Frac(x.d * Pow10(ClampExponent + 1 - x.e), x.n)]

\* sums and multiples of such values
RECURSIVE FracPow(_, _)
FracPow(f, w) == IF w = 0 THEN <<1, 1>> ELSE FracMul(f, FracPow(f, w - 1))
LogAdd(t, u) == [A |-> t.A + u.A, q |-> FracMul(t.q, u.q), S |-> FracAdd(t.S, u.S)]
LogTimes(w, t) == [A |-> w * t.A, q |-> FracPow(t.q, w), S |-> Frac(w * t.S[1], t.S[2])]

\* np.sum(np.log2(1 + 1 / lr_p)) (line 628, inverse) and np.sum(np.log2(1 +
\* lr_d)) (line 629), times ln(2), over the entries 1 .. k of the array
RECURSIVE SumLog(_, _, _)
SumLog(lr, inverse, k) ==
    IF k = 0 THEN [A |-> 0, q |-> <<1, 1>>, S |-> <<0, 1>>]
    ELSE LogAdd(SumLog(lr, inverse, k - 1),
                Log1p(IF inverse THEN Dec(lr[k].d, lr[k].n, 0 - lr[k].e) ELSE lr[k]))

\* the local calculate_cllr (lines 624-631) for non-empty lr_p and lr_d: the
\* value returned times 2 * N_p * N_d * ln(2), which orders the values
\* returned for arrays of the same lengths
plot_ece_calculate_cllr(lr_p, lr_d) ==
    LogAdd(LogTimes(Len(lr_d), SumLog(lr_p, TRUE, Len(lr_p))),
           LogTimes(Len(lr_p), SumLog(lr_d, FALSE, Len(lr_d))))

\* lrs[np.argwhere(labels == v)] (lines 599-600, 637-638)
Where(lr, labels, v) ==
    LET idx == SelectSeq([i \in DOMAIN lr |-> i], LAMBDA i : labels[i] = v)
    IN  [k \in DOMAIN idx |-> lr[idx[k]]]

\* lines 637-638, 651 and 658-662: the Cllr of the label 'LR values' and the
\* Cllr of the label 'LR after PAV'
PlotEceLabels ==
    /\ ece.state = "call"
    /\ LET lrs_after_calibration == pav_transform_lrs(ece.lrs, ece.labels)
       IN  ece' = [ece EXCEPT
                     !.state = "plotted",
                     !.lrs_after_calibration = lrs_after_calibration,
                     !.cllr = plot_ece_calculate_cllr(Where(ece.lrs, ece.labels, 1),
                                                      Where(ece.lrs, ece.labels, 0)),
                     !.cllr_after =
                         plot_ece_calculate_cllr(
                             Where(lrs_after_calibration, ece.labels, 1),
                             Where(lrs_after_calibration, ece.labels, 0))]
    /\ UNCHANGED <<hvars, avars, mix, aug, mc, normal, pre>>

\* LRs that are strictly positive and finite: 1/2, 1, 2, and a value on each
\* side that is more extreme than the bounds of lines 596-597
ValidLRs ==
    {Dec(1, 2, 0), Dec(1, 1, 0), Dec(2, 1, 0),
     Dec(1, 1, 0 - (ClampExponent + 1)), Dec(1, 1, ClampExponent + 1)}

\* the arguments lrs and labels of plot_insight_cllr (line 588): between one
\* and MaxPerClass samples of either label
InitPav ==
    /\ HarnessIdle /\ AnalyticsIdle
    /\ mix = Idle /\ aug = Idle /\ mc = Idle /\ normal = Idle /\ pre = Idle
    /\ \E n \in 2 .. 2 * MaxPerClass :
          \E labels \in [1 .. n -> {0, 1}], x \in [1 .. n -> ValidLRs] :
             /\ \A v \in {0, 1} :
                   Cardinality({i \in 1 .. n : labels[i] = v}) \in 1 .. MaxPerClass
             /\ ece = [state |-> "call", lrs |-> x, labels |-> labels,
                       lrs_after_calibration |-> <<>>,
                       cllr |-> Log1p(Dec(0, 1, 0)), cllr_after |-> Log1p(Dec(0, 1, 0))]

NextPav == PlotEceLabels

SpecPav == InitPav /\ [][NextPav]_vars

(* ======================= properties of __call__ ======================== *)
\* the line of lines 71-77 that draws split s of class c
LineOf(c, s) ==
    (IF c = 0 THEN 71 ELSE 75)
      + (CASE s = "train" -> 0 [] s = "calibrate" -> 1 [] OTHER -> 2)

\* split s of class c has been drawn in the repetition under way (or, between
\* repetitions and after the return, in the repetition just completed)
Drawn(c, s) ==
    \/ pc \in SampleLines \cup {79} /\ LineOf(c, s) < pc
    \/ pc \in {67, 93} /\ run > 0

\* lines 79-91 have been executed for the splits the state holds
SelectionDone ==
    \/ pc \in {67, 93} /\ run > 0
    \/ pc = 79 /\ err = "AssertionError"

Order == <<"train", "calibrate", "test">>

\* the size requested for the k-th split of class c, as a number (0: none)
Requested(c, k) == IF SizeFor(c, Order[k]) = NoInt THEN 0 ELSE SizeFor(c, Order[k])[1]

RECURSIVE RequestedBefore(_, _)
RequestedBefore(c, k) == IF k <= 1 THEN 0 ELSE Requested(c, k - 1) + RequestedBefore(c, k - 1)

\* the k-th request of class c partitions the pool the first k-1 left
IsPartitionStep(c, k) ==
    /\ Requested(c, k) > 0
    /\ Requested(c, k) < Cardinality(FullPool(c)) - RequestedBefore(c, k)

C2_PoolUntouched ==
    \A c \in Classes :
      (/\ err = "none" /\ pc \in SampleLines \cup {79}
       /\ \A s \in SplitNames : Drawn(c, s) => SizeFor(c, s) \in {NoInt, Int1(-1)})
      => /\ pool[c] = ResolvePool(c)
         /\ \A s \in SplitNames :
              (Drawn(c, s) /\ SizeFor(c, s) = Int1(-1)) => split[c][s] = ResolvePool(c)

\* C3 (as claimed): a call that returns normally returns exactly repeat results,
\* the i-th being the one of repetition i
C3_OnePerRepetition ==
    pc = 93 =>
      /\ Len(cllr) = arg.repeat
      /\ \A i \in DOMAIN cllr : cllr[i].run = i - 1

\* C4: for each class, as long as every split drawn so far in the repetition was
\* drawn by partitioning (0 < size < rows of the pool at that step) or asked for
\* no size, each split drawn by partitioning has exactly the requested number of
\* rows, these splits and the remaining pool are pairwise disjoint, and together
\* they are the original pool
C4_PartitionDisjoint ==
    \A c \in Classes :
      LET n == Cardinality({s \in SplitNames : Drawn(c, s)})
          P == {k \in 1 .. n : IsPartitionStep(c, k)}
          S(k) == split[c][Order[k]]
      IN  (/\ pc \in SampleLines \cup {79} /\ P # {}
           /\ \A k \in 1 .. n : IsPartitionStep(c, k) \/ SizeFor(c, Order[k]) = NoInt)
          => /\ \A k \in P :
                  /\ S(k).kind = "array"
                  /\ Cardinality(S(k).rows) = Requested(c, k)
                  /\ S(k).rows \cap pool[c].rows = {}
             /\ \A k, m \in P : k # m => S(k).rows \cap S(m).rows = {}
             /\ pool[c].kind = "array"
             /\ UNION {S(k).rows : k \in P} \cup pool[c].rows = FullPool(c)
             /\ RequestedBefore(c, n + 1) + Cardinality(pool[c].rows)
                  = Cardinality(FullPool(c))

\* C4 witness: train, calibrate and test of class 0 were all drawn by partitioning
C4_Witness ==
    /\ pc = 75 /\ err = "none"
    /\ \A k \in 1 .. 3 : IsPartitionStep(0, k)
    /\ Cardinality(class0_train.rows \cup class0_calibrate.rows \cup class0_test.rows)
         = RequestedBefore(0, 4)
    /\ class0_pool.rows # {}

\* repetitions entered so far (lines 68-69 executed)
RepetitionsStarted == IF pc \in {67, 93} THEN run ELSE run + 1

\* C5: every repetition starts from the full pool of each class, whatever the
\* earlier repetitions drew, and a callable X0/X1 has been invoked exactly once
\* per repetition entered (an array X0/X1 never)
C5_FreshPool ==
    /\ (pc = 71 /\ err = "none") => \A c \in Classes : pool[c] = Arr(FullPool(c))
    /\ \A c \in Classes :
         calls.X[c] = (IF arg.X[c].kind = "callable" THEN RepetitionsStarted ELSE 0)

\* C5 witness: the second repetition starts after the first one partitioned the
\* pool of class 0 obtained from a callable
C5_Witness ==
    /\ pc = 71 /\ run = 1 /\ err = "none"
    /\ arg.X[0].kind = "callable" /\ calls.X[0] = 2
    /\ IsPartitionStep(0, 1)
    /\ Cardinality(class0_train.rows) = Requested(0, 1)

\* the selected path passes split s to the evaluation
Passes(b, s) == s # "calibrate" \/ b = "cllr"

\* a pre-supplied array was given for split s of class c
Supplied(c, s) == arg.given[c][s].kind = "array"

\* C6 (as amended), in each state: a split for which an array was supplied and no
\* size applies is exactly the supplied array, and so is what the evaluation of
\* the repetition received for it when the selected path passes that split
C6_SuppliedKept ==
    \A c \in Classes, s \in SplitNames :
      (Supplied(c, s) /\ SizeFor(c, s) = NoInt) =>
        /\ Drawn(c, s) => split[c][s] = arg.given[c][s]
        /\ (Len(evaluated) = 1 /\ Passes(branch, s)) =>
              evaluated[1].args[c][s] = arg.given[c][s]

\* C6 (as amended), in each step: drawing such a split leaves both pools as they
\* were
C6_SuppliedStep ==
    (/\ pc \in SampleLines /\ pc' # pc
     /\ Supplied(ClassAt(pc), SplitAt(pc))
     /\ SizeFor(ClassAt(pc), SplitAt(pc)) = NoInt)
    => pool' = pool

C22_PerClassSize ==
    \A c \in Classes, s \in SplitNames :
      LET size == IF arg.class_size[c][s] # NoInt THEN arg.class_size[c][s]
                  ELSE arg.size[s]
      IN  (Drawn(c, s) /\ arg.given[c][s] = None) =>
            IF size = NoInt THEN split[c][s] = None
            ELSE /\ size[1] > 0
                 /\ split[c][s].kind = "array"
                 /\ Cardinality(split[c][s].rows) = size[1]

\* C22 witness: train_size = 1 and class0_train_size = 2; the training split
\* of class 0 has two rows and the training split of class 1 has one
C22_Witness ==
    /\ pc = 76 /\ err = "none"
    /\ arg.size["train"] = Int1(1)
    /\ arg.class_size[0]["train"] = Int1(2) /\ arg.class_size[1]["train"] = NoInt
    /\ Cardinality(class0_train.rows) = 2
    /\ Cardinality(class1_train.rows) = 1

\* the repetitions started so far
Started == run + (IF pc \in SampleLines \cup {79} THEN 1 ELSE 0)

\* the line that draws split s of class c has been executed at least once
DrawnOnce(c, s) == run > 0 \/ (pc \in SampleLines \cup {79} /\ LineOf(c, s) < pc)

\* C24: a callable passed for a split that no size applies to has been
\* invoked exactly once as soon as the first repetition has drawn the split,
\* and never again: the split holds the array it returned in every later
\* repetition; a callable X0 or X1 has been invoked once per repetition
\* started.
C24_CallableSplitOnce ==
    /\ \A c \in Classes, s \in SplitNames :
          (/\ arg.given[c][s].kind = "callable"
           /\ arg.size[s] = NoInt /\ arg.class_size[c][s] = NoInt) =>
             /\ calls.split[c][s] = (IF DrawnOnce(c, s) THEN 1 ELSE 0)
             /\ DrawnOnce(c, s) => split[c][s] = Arr(arg.given[c][s].rows)
             /\ ~DrawnOnce(c, s) => split[c][s] = arg.given[c][s]
    /\ \A c \in Classes :
          arg.X[c].kind = "callable" => calls.X[c] = Started

\* C24 witness: the second repetition has drawn the training split of class
\* 0 again; the callable passed for it was invoked once, the callable X0
\* twice
C24_Witness ==
    /\ run = 1 /\ pc = 72 /\ err = "none"
    /\ arg.given[0]["train"].kind = "callable" /\ arg.size["train"] = NoInt
    /\ arg.X[0].kind = "callable"
    /\ calls.split[0]["train"] = 1 /\ calls.X[0] = 2
    /\ class0_train = Arr(SuppliedRows(0, "train"))

\* rows left in the pool of class c (a consumed pool, None, has none)
RowsLeft(c) == IF pool[c].kind = "none" THEN 0 ELSE Cardinality(pool[c].rows)

\* C7 (as claimed): a request for more rows than the pool of the class has left
\* fails with the split-size error, the ValueError of the partitioning, and the
\* call returns nothing
C7_SplitSizeError ==
    /\ err # "none" => pc # 93
    /\ (pc \in SampleLines /\ err # "none") =>
         LET sz == SizeFor(ClassAt(pc), SplitAt(pc))
         IN  (sz # NoInt /\ sz[1] > RowsLeft(ClassAt(pc))) => err = "ValueError"

(* =================== properties of rna.analytics.cllr ================== *)
\* sample j counts as H1: its labels and the target class share a cell type
SharesCellType(j) ==
    \E k \in 1 .. NCellTypes : y_nhot[j][k] = 1 /\ target_class[k] = 1

\* the LRs, in sample order, of the H1 samples (h1) or of the other samples
\* (~h1), without the LRs that are zero
GroupOf(h1) ==
    LET F[j \in 0 .. Len(lrs)] ==
          IF j = 0 THEN <<>>
          ELSE IF SharesCellType(j) = h1 /\ ~EqualsZero(lrs[j])
               THEN Append(F[j - 1], lrs[j])
               ELSE F[j - 1]
    IN  F[Len(lrs)]

\* C8 (as claimed): the call returns the sentinel exactly when the group of H1
\* LRs or the group of H2 LRs is empty, and the Cllr of the two groups otherwise
C8_SentinelIffEmptyGroup ==
    out # <<>> =>
      out[1] = (IF GroupOf(TRUE) = <<>> \/ GroupOf(FALSE) = <<>>
                THEN Sentinel
                ELSE calculate_cllr(GroupOf(FALSE), GroupOf(TRUE)))

\* C9 (as claimed): a call whose lrs hold a value that is <= 0 or not finite
\* fails with InvalidLRError
C9_InvalidLRRejected ==
    (out # <<>> /\ \E j \in DOMAIN lrs : lrs[j] \notin FiniteLRs)
      => out[1].kind = "InvalidLRError"

\* C10 (as claimed): when calculate_cllr is called, lr_class1 holds the LRs of the
\* H1 samples and lr_class0 those of the other samples, so that every sample
\* with a non-zero LR is in exactly one of the two
C10_PartitionByTarget ==
    (out # <<>> /\ out[1].kind = "cllr") =>
      /\ out[1].lr_class1 = GroupOf(TRUE)
      /\ out[1].lr_class0 = GroupOf(FALSE)
      /\ Len(out[1].lr_class0) + Len(out[1].lr_class1)
           = Cardinality({j \in DOMAIN lrs : ~EqualsZero(lrs[j])})

(* ================= properties of the rna.analytics functions ============ *)
\* bit k (k = 0 the least significant) of the column index i
Bit(i, k) == (i \div Pow2(k)) % 2

\* column i satisfies the conditions C12 states for target and priors
Admissible(i, target, priors) ==
    /\ \E k \in 0 .. NCellTypes - 1 : target[k + 1] = 1 /\ Bit(i, k) = 1
    /\ priors # <<>> =>
          \A k \in 0 .. NCellTypes - 1 :
              /\ priors[k + 1] = 0 => Bit(i, k) = 0
              /\ priors[k + 1] = 1 => Bit(i, k) = 1

\* C12: the list get_mixture_columns_for_class returns is ascending and holds
\* exactly the column indices in [0, 2^n) whose mixture contains a cell type of
\* the target class and agrees with every prior that is 0 or 1 (no condition
\* on the priors when none are given); column 0 is never among them.
C12_MixtureColumns ==
    mix.state = "done" =>
        /\ \A a, b \in 1 .. Len(mix.cols) : a < b => mix.cols[a] < mix.cols[b]
        /\ {mix.cols[a] : a \in 1 .. Len(mix.cols)}
             = {i \in 0 .. Pow2(NCellTypes) - 1 :
                    Admissible(i, mix.target_class, mix.priors)}
        /\ \A a \in 1 .. Len(mix.cols) : mix.cols[a] # 0
        /\ mix.cols = get_mixture_columns_for_class(mix.target_class, mix.priors)

\* C12 witness: a call with a prior of 0 and a prior of 1 that returned a
\* column, and a call without priors that returned several
C12_Witness ==
    /\ mix.state = "done"
    /\ mix.priors # <<>>
    /\ \E j, k \in 1 .. NCellTypes : mix.priors[j] = 0 /\ mix.priors[k] = 1
    /\ Len(mix.cols) > 0

(* ==================== properties of rna.lr_system ====================== *)
\* the call of convert_prob_per_mixture_to_marginal_per_class has returned
Converted == mc.state = "done" /\ mc.op = "convert" /\ mc.err = "none"

\* C14 (as claimed): every entry of the array returned for a prob with
\* non-negative entries and target classes with at least one 1 (no priors, as
\* predict_lrs calls it) is a finite, strictly positive number.
C14_PositiveFinite ==
    (Converted /\ mc.priors_numerator = <<>> /\ mc.priors_denominator = <<>>) =>
        \A s \in 1 .. Len(mc.lrs) : \A i \in 1 .. Len(mc.lrs[s]) :
            mc.lrs[s][i][2] > 0 /\ mc.lrs[s][i][1] > 0

\* mixture column c (numbered from 0) contains a cell type of the n-hot vector v
HasCellType(c, v) == \E k \in 0 .. NCellTypes - 1 : v[k + 1] = 1 /\ Bit(c, k) = 1

\* the cell types outside the target class t
Outside(t) == [k \in 1 .. Len(t) |-> IF t[k] = 1 THEN 0 ELSE 1]

\* the sum of the weights a row of prob gives to the columns of S
RECURSIVE SumOver(_, _)
SumOver(row, S) ==
    IF S = {} THEN 0
    ELSE LET c == CHOOSE x \in S : TRUE IN row[c + 1] + SumOver(row, S \ {c})

\* n / d for sums of weights, cut off at max_lr
CutOff(n, d, max_lr) ==
    IF d = 0 THEN (IF n = 0 THEN <<0, 0>> ELSE <<max_lr, 1>>)
    ELSE IF n > max_lr * d THEN <<max_lr, 1>>
    ELSE <<n \div GCD(n, d), d \div GCD(n, d)>>

\* all mixture columns, numbered from 0
AllColumns == 0 .. Pow2(NCellTypes) - 1

\* C25 (as claimed): in every call the entry of sample s and target class t
\* is the sum over the mixtures that contain a cell type of t divided by the
\* sum over the mixtures that contain a cell type outside t (so a mixture with
\* both is in both sums, a mixture of cell types of t only is in the
\* numerator only and the empty mixture in neither), cut off at MAX_LR.
C25_Original ==
    Converted =>
        \A s \in 1 .. Len(mc.lrs) : \A i \in 1 .. Len(mc.lrs[s]) :
            LET t == mc.target_classes[i]
            IN  mc.lrs[s][i] =
                  CutOff(SumOver(mc.prob[s], {c \in AllColumns : HasCellType(c, t)}),
                         SumOver(mc.prob[s], {c \in AllColumns : HasCellType(c, Outside(t))}),
                         mc.MAX_LR)

\* C25 (as amended): the same, each sum being restricted to the mixtures that
\* agree with the priors given for it; without priors the sums are over all
\* the mixtures that contain a cell type of t, and over all that contain a
\* cell type outside t.
C25_ComplementDenominator ==
    Converted =>
        \A s \in 1 .. Len(mc.lrs) : \A i \in 1 .. Len(mc.lrs[s]) :
            LET t == mc.target_classes[i]
                num == {c \in AllColumns : Admissible(c, t, mc.priors_numerator)}
                den == {c \in AllColumns : Admissible(c, Outside(t), mc.priors_denominator)}
            IN  /\ mc.lrs[s][i] = CutOff(SumOver(mc.prob[s], num),
                                         SumOver(mc.prob[s], den), mc.MAX_LR)
                /\ (mc.priors_numerator = <<>> /\ mc.priors_denominator = <<>>) =>
                      /\ num = {c \in AllColumns : HasCellType(c, t)}
                      /\ den = {c \in AllColumns : HasCellType(c, Outside(t))}
                      /\ 0 \notin num \cup den

\* C25 witness: a call without priors for the target class of the first cell
\* type alone, on a row that gives weight 1 to that cell type alone and to
\* the mixture of all cell types and 0 to the rest: the LR is (1 + 1) / 1
C25_Witness ==
    /\ Converted
    /\ mc.priors_numerator = <<>> /\ mc.priors_denominator = <<>>
    /\ mc.target_classes[1] = [k \in 1 .. NCellTypes |-> IF k = 1 THEN 1 ELSE 0]
    /\ mc.prob[1] = [c \in MixtureColumns |->
                        IF c - 1 \in {1, Pow2(NCellTypes) - 1} THEN 1 ELSE 0]
    /\ mc.lrs[1][1] = <<2, 1>>

\* the quotient n / d of line 90 as a pair in lowest terms with a denominator
\* that is not negative (<<1, 0>> inf, <<-1, 0>> -inf, <<0, 0>> nan)
Exact(n, d) ==
    IF d = 0 THEN <<IF n > 0 THEN 1 ELSE IF n < 0 THEN 0 - 1 ELSE 0, 0>>
    ELSE LET g == GCD(Abs(n), Abs(d))
             sgn == IF d > 0 THEN 1 ELSE 0 - 1
         IN  <<(sgn * n) \div g, (sgn * d) \div g>>

\* the quotient of line 90 for sample s and target class i
RatioOf(s, i) ==
    LET t == mc.target_classes[i]
    IN  Exact(SumOver(mc.prob[s],
                      {c \in AllColumns : Admissible(c, t, mc.priors_numerator)}),
              SumOver(mc.prob[s],
                      {c \in AllColumns : Admissible(c, Outside(t), mc.priors_denominator)}))

\* C26: every entry returned that is not nan lies in [-MAX_LR, MAX_LR]; an
\* entry is MAX_LR if the quotient of line 90 is above MAX_LR (inf included),
\* -MAX_LR if it is below -MAX_LR (-inf included), the quotient itself if it
\* lies in the interval, and nan if the quotient is nan.
C26_Clamped ==
    Converted =>
        \A s \in 1 .. Len(mc.lrs) : \A i \in 1 .. Len(mc.lrs[s]) :
            LET v == mc.lrs[s][i]
                r == RatioOf(s, i)
                M == mc.MAX_LR
                above == IF r[2] = 0 THEN r[1] > 0 ELSE r[1] > M * r[2]
                below == IF r[2] = 0 THEN r[1] < 0 ELSE r[1] < (0 - M) * r[2]
            IN  /\ v # <<0, 0>> =>
                      v[2] > 0 /\ (0 - M) * v[2] <= v[1] /\ v[1] <= M * v[2]
                /\ above => v = <<M, 1>>
                /\ below => v = <<0 - M, 1>>
                /\ (~above /\ ~below) => v = r

\* C26 witness: a quotient below -MAX_LR that is finite was replaced by
\* -MAX_LR
C26_Witness ==
    /\ Converted
    /\ RatioOf(1, 1)[2] > 0
    /\ RatioOf(1, 1)[1] < (0 - mc.MAX_LR) * RatioOf(1, 1)[2]
    /\ mc.lrs[1][1] = <<0 - mc.MAX_LR, 1>>

\* C27: two calls of predict_lrs on the same fitted model with the same X,
\* target_classes and with_calibration return the same (the same LR matrix
\* or the same exception) whatever priors each of them is given.
C27_PriorsIgnored ==
    (mc.state = "ready" /\ mc.op = "predict_lrs") =>
        \A a, b \in 1 .. Len(mc.calls) : mc.calls[a].returned = mc.calls[b].returned

\* C27 witness: two calls with different priors, one of them excluding a
\* cell type and the other requiring it, both returned the same LR matrix
C27_Witness ==
    /\ mc.state = "ready" /\ mc.op = "predict_lrs"
    /\ Len(mc.calls) = 2
    /\ mc.calls[1].priors # <<>> /\ mc.calls[2].priors # <<>>
    /\ mc.calls[1].priors[1] = 0 /\ mc.calls[2].priors[1] = 1
    /\ mc.calls[1].returned.err = "none"
    /\ mc.calls[1].returned.lrs = mc.calls[2].returned.lrs

\* the target classes of the call are pairwise distinct
DistinctTargets ==
    \A i, j \in 1 .. Len(mc.target_classes) :
        mc.target_classes[i] = mc.target_classes[j] => i = j

\* sample s contains at least one cell type of the target class
ContainsTarget(y, target) == \E k \in 1 .. Len(target) : y[k] = 1 /\ target[k] = 1

\* the calibrator state fitted for the i-th target class of the call
FittedFor(i) ==
    [scores |-> [s \in 1 .. Len(mc.prob) |->
                    Clamp(Marginal(mc.prob[s], mc.target_classes[i], <<>>, <<>>),
                          mc.MAX_LR)],
     labels |-> [s \in 1 .. Len(mc.prob) |->
                    IF ContainsTarget(mc.y_nhot[s], mc.target_classes[i])
                    THEN 1 ELSE 0]]

C11_PerTarget ==
    (mc.state = "done" /\ mc.op = "fit_calibration" /\ mc.err = "none"
       /\ DistinctTargets) =>
        \A i \in 1 .. Len(mc.target_classes) :
            /\ str(mc.target_classes[i]) \in DOMAIN mc.calibrators_per_target_class
            /\ mc.calibrators_per_target_class[str(mc.target_classes[i])] = FittedFor(i)

C11_EarlierKept ==
    (mc.op = "fit_calibration" /\ DistinctTargets) =>
        \A key \in DOMAIN mc.calibrators_per_target_class :
            /\ key \in DOMAIN mc'.calibrators_per_target_class
            /\ mc'.calibrators_per_target_class[key]
                 = mc.calibrators_per_target_class[key]

ComputedLRs ==
    {<<normal.class0_test[k], normal.X0_lr[k]>> : k \in 1 .. Len(normal.X0_lr)}
      \cup {<<normal.class1_test[k], normal.X1_lr[k]>> : k \in 1 .. Len(normal.X1_lr)}

\* C15: in a call that passes distribution_mean_delta = d, every LR is
\* N(x; loc0 + d, scale1) / N(x; loc0, scale0) for the loc0, scale0 and scale1
\* the evaluator was constructed with, which are still its fields.
C15_DeltaOverride ==
    (normal.state # "ready" /\ normal.nevals > 0 /\ normal.arg # NoInt) =>
        /\ normal.loc1 = normal.init.loc0 + normal.arg[1]
        /\ normal.loc0 = normal.init.loc0
        /\ normal.scale0 = normal.init.scale0
        /\ normal.scale1 = normal.init.scale1
        /\ \A p \in ComputedLRs :
              p[2] = get_lr(p[1], normal.init.loc0, normal.init.scale0,
                            normal.init.loc0 + normal.arg[1], normal.init.scale1)

\* C15 witness: a call passed a delta that moves loc1 away from the value of
\* the constructor, and computed an LR for a point of each class
C15_Witness ==
    /\ normal.state = "called" /\ normal.nevals > 0 /\ normal.arg # NoInt
    /\ normal.err = "none"
    /\ normal.init.loc0 + normal.arg[1] # normal.init.loc1
    /\ normal.X0_lr # <<>> /\ normal.X1_lr # <<>>

\* the point x is equally far from loc0 and loc1, the scales being equal
Midpoint(x) ==
    /\ normal.scale0 = normal.scale1
    /\ (x - normal.loc0) * (x - normal.loc0) = (x - normal.loc1) * (x - normal.loc1)

RECURSIVE LastPassed(_)
LastPassed(h) ==
    IF h = <<>> THEN NoInt
    ELSE IF h[Len(h)] # NoInt THEN h[Len(h)]
    ELSE LastPassed(SubSeq(h, 1, Len(h) - 1))

\* C23: once a call has passed distribution_mean_delta, a later call that
\* omits it still computes every LR with loc1 = loc0 + (last delta passed),
\* whatever loc1 the constructor was given.
C23_OverridePersists ==
    (normal.nevals > 0 /\ normal.arg = NoInt /\ LastPassed(normal.passed) # NoInt) =>
        LET delta == LastPassed(normal.passed)[1]
        IN  /\ normal.loc1 = normal.init.loc0 + delta
            /\ \A p \in ComputedLRs :
                  p[2] = get_lr(p[1], normal.init.loc0, normal.init.scale0,
                                normal.init.loc0 + delta, normal.init.scale1)

\* C23 witness: the first call passed a delta that moves loc1 away from the
\* value of the constructor, the second call omitted it and computed an LR
\* for a point of each class
C23_Witness ==
    /\ Len(normal.passed) = 2 /\ normal.passed[1] # NoInt /\ normal.arg = NoInt
    /\ normal.nevals > 0 /\ normal.err = "none"
    /\ normal.init.loc0 + normal.passed[1][1] # normal.init.loc1
    /\ normal.X0_lr # <<>> /\ normal.X1_lr # <<>>

(* ================== properties of process_vector ======================= *)
\* the process_vector calls that returned, in order
Returned == 1 .. Len(pre.log)

\* what the j-th call returned for split k: None, or the rows of the slice
OutIsNone(j, k) ==
    IF j < Len(pre.log) THEN k \in pre.log[j + 1].none ELSE pre.X[k].kind = "none"
OutRows(j, k) ==
    IF j < Len(pre.log) THEN pre.log[j + 1].args[k] ELSE RowsOf(pre.heap, pre.X[k])

\* the rows of all the arguments of a call, in argument order
RECURSIVE Joined(_, _)
Joined(args, k) == IF k = 0 THEN <<>> ELSE Joined(args, k - 1) \o args[k]

\* number of rows of the arguments before the k-th
RECURSIVE Offset(_, _)
Offset(args, k) == IF k = 1 THEN 0 ELSE Offset(args, k - 1) + Len(args[k - 1])

\* every call that returned called fit_transform once, for the preprocessor
\* of its turn, on the concatenation of its splits, and returned None for a
\* None split and, for a split with rows, the transformed rows at its offsets
ProcessedAsClaimed ==
    /\ Len(pre.log) + Len(pre.todo) = Len(pre.preprocessors)
    /\ \A j \in Returned :
          LET e == pre.log[j]
          IN  /\ e.preprocessor = pre.preprocessors[j]
              /\ e.X_all = Joined(e.args, Len(e.args))
              /\ \A k \in 1 .. Len(e.args) :
                    /\ k \in e.none => OutIsNone(j, k)
                    /\ Len(e.args[k]) > 0 =>
                          /\ ~OutIsNone(j, k)
                          /\ OutRows(j, k)
                               = [i \in 1 .. Len(e.args[k]) |->
                                     Transformed(e.preprocessor,
                                                 e.X_all[Offset(e.args, k) + i])]
                          /\ OutRows(j, k)
                               = [i \in 1 .. Len(e.args[k]) |->
                                     Transformed(e.preprocessor, e.args[k][i])]

C18_CallerArraysKept ==
    \A k \in 1 .. Len(pre.caller) : pre.heap[k] = pre.caller[k]

\* C18 witness: two preprocessors have transformed the array they were given
\* in place, and a split of the call was the caller's array itself
C18_Witness ==
    /\ pre.state = "done" /\ Len(pre.log) = 2
    /\ Len(pre.heap) = Len(pre.caller) + 2
    /\ \E k \in 1 .. Len(pre.caller) : pre.given[k] = View(k, 0, MaxSplitRows)

(* =================== properties of augment_data ======================== *)
\* the call is over: it returned or raised
AugOver == aug.state \in {"returned", "raised"}

\* the block of N_SAMPLES_PER_COMBINATION rows that row r is in
BlockOf(r) == (r - 1) \div aug.N

\* C13 (as claimed): for non-empty X the call returns two arrays of
\* 2^n_celltypes * N_SAMPLES_PER_COMBINATION rows, and every row of block i
\* carries the label whose bit k is bit k of i.
C13_PowerSet ==
    (AugOver /\ ~aug.X_empty) =>
        /\ aug.state = "returned"
        /\ Len(aug.X_augmented) = Pow2(aug.n_celltypes) * aug.N
        /\ Len(aug.y_nhot_augmented) = Pow2(aug.n_celltypes) * aug.N
        /\ \A r \in 1 .. Len(aug.y_nhot_augmented) :
              /\ Len(aug.y_nhot_augmented[r]) = aug.n_celltypes
              /\ \A k \in 0 .. aug.n_celltypes - 1 :
                    aug.y_nhot_augmented[r][k + 1] = Bit(BlockOf(r), k)

\* C19 (as claimed): with from_penile=True the call succeeds for non-empty X,
\* every sample's mixture contains penile skin (class n_celltypes) and the
\* label matrix has n_celltypes columns; with from_penile=False no sample
\* contains penile skin.
C19_FromPenile ==
    (AugOver /\ ~aug.X_empty) =>
        IF aug.from_penile
        THEN /\ aug.state = "returned"
             /\ \A r \in 1 .. Len(aug.X_augmented) :
                   aug.n_celltypes \in aug.X_augmented[r]
             /\ \A r \in 1 .. Len(aug.y_nhot_augmented) :
                   Len(aug.y_nhot_augmented[r]) = aug.n_celltypes
        ELSE aug.state = "returned" =>
                \A r \in 1 .. Len(aug.X_augmented) :
                    aug.n_celltypes \notin aug.X_augmented[r]

\* C28: when X.size == 0 the call never raises and never samples, and it
\* returns None for X_augmented and a label matrix of no row and n_celltypes
\* columns, whatever the other arguments are.
C28_EmptyX ==
    (aug.state # "idle" /\ aug.X_empty) =>
        /\ aug.state \in {"called", "return", "returned"}
        /\ aug.err = "none"
        /\ aug.n_sampled = 0 /\ aug.i = 0
        /\ aug.state = "returned" =>
              /\ aug.X_augmented = <<"None">>
              /\ aug.y_nhot_augmented = <<>>
              /\ aug.y_columns = aug.n_celltypes

\* C28 witness: a call with X.size == 0 and from_penile=True, for a label
\* encoder with the class of penile skin, has returned
C28_Witness ==
    /\ aug.state = "returned" /\ aug.X_empty
    /\ aug.from_penile /\ aug.n_classes > aug.n_celltypes
    /\ aug.X_augmented = <<"None">>

(* ============ properties of plot_ece: the Cllr after PAV ================ *)
\* c is smaller than b, for two values of calculate_cllr on arrays of the
\* same lengths
CllrLess(c, b) ==
    IF c.A # b.A THEN c.A < b.A
    ELSE IF c.q # b.q THEN c.q[1] * b.q[2] < b.q[1] * c.q[2]
    ELSE c.S[1] * b.S[2] < b.S[1] * c.S[2]

\* C21 (as claimed): for lrs that are strictly positive and finite, with
\* samples of both labels, the Cllr of the LRs after PAV is not larger than
\* the Cllr of the LRs themselves.
C21_PavNotWorse ==
    ece.state = "plotted" => ~CllrLess(ece.cllr, ece.cllr_after)

(* ====================== properties of plot_ece ========================= *)
\* the label has been computed for two non-empty arrays of ones
EceDone == ece.state = "done" /\ ece.N_p > 0 /\ ece.N_d > 0

\* C20 (as claimed): for non-empty arrays of ones the Cllr that the local
\* calculate_cllr computes is exactly 1.0, for every pair of lengths.
C20_Original == EceDone => ece.cllr = One

\* C20 (as amended): for non-empty arrays of ones the Cllr is 1.0 or the
\* double next below it, the latter exactly when (1 / N) * N is not 1.0 for
\* both lengths, which takes both lengths to be at least 49; the label, with
\* one decimal, reads 1.0 for every pair of lengths.
C20_LR1Cllr ==
    EceDone =>
        /\ ece.err = "none"
        /\ ece.cllr \in {One, Double(0, 1)}
        /\ ece.cllr # One <=> (ReciprocalTimes(ece.N_p) # One
                                 /\ ReciprocalTimes(ece.N_d) # One)
        /\ (ece.N_p < 49 \/ ece.N_d < 49) => ece.cllr = One
        /\ ece.label = "1.0"

\* C20 witness: the label of two arrays of different lengths, with Cllr 1.0
C20_Witness ==
    /\ EceDone /\ ece.N_p > 1 /\ ece.N_d > ece.N_p
    /\ ece.cllr = One /\ ece.label = "1.0"

====
